---- MODULE Spec2Model ----
(***************************************************************************)
(* The FSE (tANS) weight compressor of the converter's quantizer:          *)
(* FSEEncoder::Compress and the functions it calls                         *)
(* (NormalizeFrequency, FSECreateStatesForEncoding, FSEEncode,             *)
(* FSEEncodeSymbolGetNewState, SerializingToBuffer, SerializingToTensor),  *)
(* with the bit stream (FSEBitStream), the squeeze step (SqueezeQuant) and *)
(* the header constants, whose code is declared elsewhere, taken from the  *)
(* specification.                                                          *)
(*                                                                         *)
(* Arrays are functions over 0..n-1, as in the code; streams of bits and   *)
(* bytes and the histories are sequences.                                  *)
(***************************************************************************)
EXTENDS Integers, Sequences, FiniteSets, TLC

----------------------------------------------------------------------------
(* Program constants *)

kFseTableExtendSize == 3
kFrenqTableExtendSize == 2
kAlignSize == 8
k16Bit == 16
MAX_TABLE_LOG == 16
MAX_SYMS == 65534
kMaxBitCount == 64

RET_OK == "RET_OK"
RET_ERROR == "RET_ERROR"
RET_NULL_PTR == "RET_NULL_PTR"

kNumberTypeInt8 == "kNumberTypeInt8"
kNumberTypeInt16 == "kNumberTypeInt16"
kNumberTypeFloat32 == "kNumberTypeFloat32"
kFSE == "kFSE"
kNoCompression == "kNoCompression"

----------------------------------------------------------------------------
(* Arithmetic of the machine types *)

Min(a, b) == IF a < b THEN a ELSE b
Max(a, b) == IF a > b THEN a ELSE b

RECURSIVE Pow2(_)
Pow2(n) == IF n <= 0 THEN 1 ELSE 2 * Pow2(n - 1)

\* x >> n and x << n on non-negative values that stay below 2^31.
Shr(x, n) == x \div Pow2(n)
Shl(x, n) == x * Pow2(n)

\* Conversions to uint16_t, uint8_t and int16_t: the value modulo 2^w.
U16(x) == x % 65536
U8(x) == x % 256
S16(x) == IF x % 65536 >= 32768 THEN (x % 65536) - 65536 ELSE x % 65536

\* A uint32_t is kept as the representative of its residue in
\* (-2^31, 2^31); (x >> 16) of the uint32_t whose representative is x.
U32Shr16(x) == IF x >= 0 THEN x \div 65536 ELSE 65536 + (x \div 65536)

ZeroArr(n) == [i \in 0..(n - 1) |-> 0]

RECURSIVE SumArr(_, _)
SumArr(arr, n) == IF n <= 0 THEN 0 ELSE arr[n - 1] + SumArr(arr, n - 1)

----------------------------------------------------------------------------
(* FSEBitStream *)

\* FSEBitStream::CountBits: the bit-length of x (0 -> 0).
RECURSIVE CountBits(_)
CountBits(x) == IF x <= 0 THEN 0 ELSE 1 + CountBits(x \div 2)

\* The low k bits of value, most significant first.
LowBits(value, k) == [j \in 1..k |-> IF k - j >= 31 THEN (IF value < 0 THEN 1 ELSE 0)
                                     ELSE (value \div Pow2(k - j)) % 2]

\* A chunk is a 64-bit word, written as its bits from the most significant
\* down; the bits pushed so far fill it from the top.
PadChunk(bits) == bits \o [j \in 1..(kMaxBitCount - Len(bits)) |-> 0]

\* A stream that has not been created: the state of a constructed
\* FSEBitStream object.
NoStream == [chunks |-> <<>>, curr_chunk |-> <<>>, curr_bit_count |-> 0,
             curr_chunk_index |-> -1, chunk_count |-> 0, allocated |-> FALSE,
             overrun |-> FALSE]

\* FSEBitStream::Create: storage for bit_capacity bits, rounded up to whole
\* chunks; fails when the capacity is zero or the allocation fails.
Create(bs, bit_capacity, alloc_ok) ==
  IF bit_capacity = 0 \/ ~alloc_ok
  THEN [ret |-> RET_ERROR, bs |-> bs]
  ELSE [ret |-> RET_OK,
        bs |-> [chunks |-> <<>>, curr_chunk |-> <<>>, curr_bit_count |-> 0,
                curr_chunk_index |-> -1,
                chunk_count |-> (bit_capacity + kMaxBitCount - 1) \div kMaxBitCount,
                allocated |-> TRUE, overrun |-> FALSE]]

\* A Push that starts the new chunk empty when a chunk fills, losing the
\* bits that did not fit: a variant that the content of the stream must
\* tell from the stream of the specification.
PushTruncating(bs, value, bit_count) ==
  LET all == bs.curr_chunk \o LowBits(value, bit_count) IN
  IF Len(all) < kMaxBitCount
  THEN [bs EXCEPT !.curr_chunk = all, !.curr_bit_count = Len(all)]
  ELSE [bs EXCEPT !.chunks = Append(@, SubSeq(all, 1, kMaxBitCount)),
                  !.curr_chunk_index = @ + 1,
                  !.curr_chunk = <<>>,
                  !.curr_bit_count = 0,
                  !.overrun = @ \/ (bs.curr_chunk_index + 1 >= bs.chunk_count)]

\* FSEBitStream::Push: appends the low bit_count bits of value, most
\* significant first; a chunk that fills is committed and a new one starts.
\* overrun records a commit beyond the chunks that were allocated.
Push(bs, value, bit_count) ==
  LET all == bs.curr_chunk \o LowBits(value, bit_count) IN
  IF Len(all) < kMaxBitCount
  THEN [bs EXCEPT !.curr_chunk = all, !.curr_bit_count = Len(all)]
  ELSE [bs EXCEPT !.chunks = Append(@, SubSeq(all, 1, kMaxBitCount)),
                  !.curr_chunk_index = @ + 1,
                  !.curr_chunk = SubSeq(all, kMaxBitCount + 1, Len(all)),
                  !.curr_bit_count = Len(all) - kMaxBitCount,
                  !.overrun = @ \/ (bs.curr_chunk_index + 1 >= bs.chunk_count)]

\* FSEBitStream::Empty: resets the content and keeps the storage.
Empty(bs) ==
  [bs EXCEPT !.chunks = <<>>, !.curr_chunk = <<>>, !.curr_bit_count = 0,
             !.curr_chunk_index = -1]

\* FSEBitStream::Flush: commits a partially filled final chunk.
Flush(bs) ==
  IF bs.curr_bit_count = 0 THEN bs
  ELSE [bs EXCEPT !.chunks = Append(@, PadChunk(bs.curr_chunk)),
                  !.curr_chunk_index = @ + 1,
                  !.curr_chunk = <<>>, !.curr_bit_count = 0,
                  !.overrun = @ \/ (bs.curr_chunk_index + 1 >= bs.chunk_count)]

\* FSEBitStream::Free: releases the storage.
Free(bs) == NoStream

RECURSIVE Flatten(_)
Flatten(ss) == IF ss = <<>> THEN <<>> ELSE Head(ss) \o Flatten(Tail(ss))

\* The bits the stream holds, in the order they were pushed: the committed
\* chunks, then the bits of the partial chunk.
Content(bs) == Flatten(bs.chunks) \o bs.curr_chunk

----------------------------------------------------------------------------
(* NormalizeFrequency *)

\* GetMaxIndex: the first index holding the largest value, -1 for an empty
\* array.
RECURSIVE GetMaxIndexFrom(_, _, _, _, _)
GetMaxIndexFrom(arr, arr_count, i, max, index) ==
  IF i >= arr_count THEN index
  ELSE IF index = -1 \/ arr[i] > max
       THEN GetMaxIndexFrom(arr, arr_count, i + 1, arr[i], i)
       ELSE GetMaxIndexFrom(arr, arr_count, i + 1, max, index)

\* The index of the last of the largest entries, where GetMaxIndex gives
\* the first.
RECURSIVE GetMaxIndexLastFrom(_, _, _, _, _)
GetMaxIndexLastFrom(arr, arr_count, i, max, index) ==
  IF i >= arr_count THEN index
  ELSE IF index = -1 \/ arr[i] >= max
       THEN GetMaxIndexLastFrom(arr, arr_count, i + 1, arr[i], i)
       ELSE GetMaxIndexLastFrom(arr, arr_count, i + 1, max, index)

GetMaxIndexLast(arr, arr_count) == GetMaxIndexLastFrom(arr, arr_count, 0, 0, -1)

GetMaxIndex(arr, arr_count) == GetMaxIndexFrom(arr, arr_count, 0, 0, -1)

\* table_log with an extension of 2 bits, not the 3 of the source.
TableLogNarrow(size) == Min(MAX_TABLE_LOG, CountBits(size) + kFseTableExtendSize - 1)

\* table_log without the cap at MAX_TABLE_LOG.
TableLogUncapped(size) == CountBits(size) + kFseTableExtendSize

\* *table_log = min(MAX_TABLE_LOG, CountBits(size) + 3)
TableLogOf(size) == Min(MAX_TABLE_LOG, CountBits(size) + kFseTableExtendSize)

\* The rounding with its result kept in four bits, so that it is not
\* monotonic in f.
RoundFrequencyNarrow(f, new_table_size, curr_table_size) ==
  Max(1, ((2 * new_table_size * f + curr_table_size) \div (2 * curr_table_size)) % 16)

\* The rounding without the floor of 1: a variant that the normalization
\* invariant must tell from the code.
RoundFrequencyNoFloor(f, new_table_size, curr_table_size) ==
  (2 * new_table_size * f + curr_table_size) \div (2 * curr_table_size)

\* max(1, (int)floorf(0.5 + rat * f)) with rat = new_table_size /
\* curr_table_size. The quotient is taken exactly: for the histograms of
\* this model (sums below 64) new*f/curr is never k + 1/2 and is at least
\* 1/128 away from it, far more than the rounding error of the two float
\* operations, so the float result is the same.
RoundFrequency(f, new_table_size, curr_table_size) ==
  Max(1, (2 * new_table_size * f + curr_table_size) \div (2 * curr_table_size))

\* The shrink loop: while the sum exceeds the table size, one less for the
\* largest entry.
RECURSIVE Shrink(_, _, _, _)
Shrink(frequency, size, updated_table_size, new_table_size) ==
  IF updated_table_size > new_table_size
  THEN LET max_ix == GetMaxIndex(frequency, size) IN
       IF max_ix < 0 \/ max_ix > MAX_SYMS
       THEN [ret |-> RET_ERROR, frequency |-> frequency,
             updated_table_size |-> updated_table_size]
       ELSE Shrink([frequency EXCEPT ![max_ix] = @ - 1], size,
                   updated_table_size - 1, new_table_size)
  ELSE [ret |-> RET_OK, frequency |-> frequency,
        updated_table_size |-> updated_table_size]

\* A grow step that gives the deficit to the first entry.
GrowFirstEntry(frequency, size, updated_table_size, new_table_size) ==
  IF updated_table_size < new_table_size
  THEN [ret |-> RET_OK,
        frequency |-> [frequency EXCEPT
                         ![0] = @ + (new_table_size - updated_table_size)]]
  ELSE [ret |-> RET_OK, frequency |-> frequency]

\* The grow step: the whole deficit goes to the largest entry.
Grow(frequency, size, updated_table_size, new_table_size) ==
  IF updated_table_size < new_table_size
  THEN LET max_ix == GetMaxIndex(frequency, size) IN
       IF max_ix < 0 \/ max_ix >= MAX_SYMS
       THEN [ret |-> RET_ERROR, frequency |-> frequency]
       ELSE [ret |-> RET_OK,
             frequency |-> [frequency EXCEPT
                              ![max_ix] = @ + (new_table_size - updated_table_size)]]
  ELSE [ret |-> RET_OK, frequency |-> frequency]

\* A NormalizeFrequency that rounds before it tests the sum: a variant that
\* the zero-sum property must tell from the code.
NormalizeFrequencyLateTest(frequency, size) ==
  LET table_log == TableLogOf(size)
      new_table_size == Pow2(table_log)
      curr_table_size == SumArr(frequency, size)
  IN
  IF curr_table_size = 0
  THEN [ret |-> RET_ERROR, table_log |-> table_log,
        frequency |-> [i \in 0..(size - 1) |-> 1]]
  ELSE LET rounded == [i \in 0..(size - 1) |->
                         RoundFrequency(frequency[i], new_table_size, curr_table_size)]
           shrunk == Shrink(rounded, size, SumArr(rounded, size), new_table_size)
       IN
       IF shrunk.ret # RET_OK
       THEN [ret |-> RET_ERROR, table_log |-> table_log, frequency |-> shrunk.frequency]
       ELSE LET grown == Grow(shrunk.frequency, size, shrunk.updated_table_size,
                              new_table_size)
            IN [ret |-> grown.ret, table_log |-> table_log,
                frequency |-> grown.frequency]

\* A NormalizeFrequency that accepts a sum of zero: a variant that the
\* rejection of an empty sequence must tell from the code.
NormalizeFrequencyZeroOk(frequency, size) ==
  LET table_log == TableLogOf(size)
      new_table_size == Pow2(table_log)
      curr_table_size == SumArr(frequency, size)
  IN
  IF curr_table_size = 0
  THEN [ret |-> RET_OK, table_log |-> table_log, frequency |-> frequency]
  ELSE LET rounded == [i \in 0..(size - 1) |->
                         RoundFrequency(frequency[i], new_table_size, curr_table_size)]
           shrunk == Shrink(rounded, size, SumArr(rounded, size), new_table_size)
       IN
       IF shrunk.ret # RET_OK
       THEN [ret |-> RET_ERROR, table_log |-> table_log, frequency |-> shrunk.frequency]
       ELSE LET grown == Grow(shrunk.frequency, size, shrunk.updated_table_size,
                              new_table_size)
            IN [ret |-> grown.ret, table_log |-> table_log,
                frequency |-> grown.frequency]

\* FSEEncoder::NormalizeFrequency(q, &table_log): the status, the table log
\* it stored and the frequencies it left in q.
NormalizeFrequency(frequency, size) ==
  LET table_log == TableLogOf(size)
      new_table_size == Pow2(table_log)
      curr_table_size == SumArr(frequency, size)
  IN
  IF curr_table_size = 0
  THEN [ret |-> RET_ERROR, table_log |-> table_log, frequency |-> frequency]
  ELSE LET rounded == [i \in 0..(size - 1) |->
                         RoundFrequency(frequency[i], new_table_size, curr_table_size)]
           shrunk == Shrink(rounded, size, SumArr(rounded, size), new_table_size)
       IN
       IF shrunk.ret # RET_OK
       THEN [ret |-> RET_ERROR, table_log |-> table_log, frequency |-> shrunk.frequency]
       ELSE LET grown == Grow(shrunk.frequency, size, shrunk.updated_table_size,
                              new_table_size)
            IN [ret |-> grown.ret, table_log |-> table_log,
                frequency |-> grown.frequency]

----------------------------------------------------------------------------
(* FSECreateStatesForEncoding *)

\* An even step: a variant that spread completeness must tell from the code.
SpreadStepEven(tablesize) ==
  Shr(tablesize, 1) + Shr(tablesize, kFseTableExtendSize) + kFrenqTableExtendSize

\* step = (tablesize >> 1) + (tablesize >> 3) + 3
SpreadStep(tablesize) ==
  Shr(tablesize, 1) + Shr(tablesize, kFseTableExtendSize) + kFseTableExtendSize

\* (pos + step) & tablemask
NextPos(pos, tablesize) == (pos + SpreadStep(tablesize)) % tablesize

\* The spread loop, from symbol sym and occurrence i on. st holds the symbol
\* table, the position and (for the properties) the positions written, in
\* order. The while loop steps again as long as the position is beyond the
\* mask.
RECURSIVE SpreadFrom(_, _, _, _, _, _)
SpreadFrom(frequency, frequency_count, tablesize, sym, i, st) ==
  IF sym >= frequency_count THEN st
  ELSE IF i >= frequency[sym]
       THEN SpreadFrom(frequency, frequency_count, tablesize, sym + 1, 0, st)
       ELSE IF st.pos > tablesize - 1
            THEN SpreadFrom(frequency, frequency_count, tablesize, sym, i,
                            [st EXCEPT !.pos = NextPos(st.pos, tablesize)])
            ELSE SpreadFrom(frequency, frequency_count, tablesize, sym, i + 1,
                            [symbol_table |-> [st.symbol_table EXCEPT ![st.pos] = sym],
                             pos |-> NextPos(st.pos, tablesize),
                             writes |-> Append(st.writes, st.pos)])

\* The symbol table is the zero-initialised vector FSEEncode passes.
Spread(frequency, frequency_count, table_log) ==
  SpreadFrom(frequency, frequency_count, Pow2(table_log), 0, 0,
             [symbol_table |-> ZeroArr(Pow2(table_log)), pos |-> 0, writes |-> <<>>])

\* cfreqs: frequency_count + 2 entries, the cumulated frequencies and one
\* sentinel.
RECURSIVE CumulateFrom(_, _, _, _)
CumulateFrom(frequency, frequency_count, i, cfreqs) ==
  IF i >= frequency_count + 1 THEN cfreqs
  ELSE CumulateFrom(frequency, frequency_count, i + 1,
                    [cfreqs EXCEPT ![i] = cfreqs[i - 1] + frequency[i - 1]])

Cumulate(frequency, frequency_count) ==
  LET c == CumulateFrom(frequency, frequency_count, 1,
                        ZeroArr(frequency_count + kFrenqTableExtendSize))
  IN [c EXCEPT ![frequency_count + 1] = c[frequency_count] + 1]

\* coding_table[...] = tablesize + i, stored in a uint16_t
CodingEntry(tablesize, i) == U16(tablesize + i)

\* The coding table loop: slot i of the spread gives the state tablesize + i,
\* stored as a uint16_t at the next free place of its symbol's segment. A
\* store outside the table is recorded and dropped.
RECURSIVE CodingFrom(_, _, _, _)
CodingFrom(symbol_table, tablesize, i, st) ==
  IF i >= tablesize THEN st
  ELSE LET sym == symbol_table[i] IN
       IF st.cfreqs[sym] \in DOMAIN st.coding_table
       THEN CodingFrom(symbol_table, tablesize, i + 1,
              [coding_table |-> [st.coding_table EXCEPT
                                   ![st.cfreqs[sym]] = CodingEntry(tablesize, i)],
               cfreqs |-> [st.cfreqs EXCEPT ![sym] = @ + 1],
               out_of_table |-> st.out_of_table])
       ELSE CodingFrom(symbol_table, tablesize, i + 1,
              [coding_table |-> st.coding_table,
               cfreqs |-> [st.cfreqs EXCEPT ![sym] = @ + 1],
               out_of_table |-> TRUE])

\* max_bits_out taken from the position of the highest set bit of
\* frequency - 1, which is one less than its bit length.
MaxBitsOutHighBit(f, table_log) == table_log - CountBits(f - 1) + 1

\* max_bits_out = table_log - CountBits(frequency[sym] - 1)
MaxBitsOut(f, table_log) == table_log - CountBits(f - 1)

\* delta_state[sym] = total - frequency[sym], stored in an int16_t
DeltaStateEntry(total, f) == S16(total - f)

\* The delta loop: delta_bit_count is a uint32_t (its representative),
\* delta_state an int16_t.
RECURSIVE DeltasFrom(_, _, _, _, _)
DeltasFrom(frequency, frequency_count, table_log, sym, st) ==
  IF sym >= frequency_count THEN st
  ELSE IF frequency[sym] >= kFrenqTableExtendSize
       THEN LET max_bits_out == MaxBitsOut(frequency[sym], table_log)
                min_state_plus == Shl(frequency[sym], max_bits_out)
            IN DeltasFrom(frequency, frequency_count, table_log, sym + 1,
                 [delta_bit_count |-> [st.delta_bit_count EXCEPT
                                         ![sym] = Shl(max_bits_out, k16Bit) - min_state_plus],
                  delta_state |-> [st.delta_state EXCEPT
                                     ![sym] = DeltaStateEntry(st.total, frequency[sym])],
                  total |-> st.total + frequency[sym]])
       ELSE DeltasFrom(frequency, frequency_count, table_log, sym + 1,
                 [delta_bit_count |-> [st.delta_bit_count EXCEPT
                                         ![sym] = Shl(table_log, k16Bit) - Pow2(table_log)],
                  delta_state |-> [st.delta_state EXCEPT ![sym] = DeltaStateEntry(st.total, 1)],
                  total |-> st.total + 1])

Deltas(frequency, frequency_count, table_log) ==
  DeltasFrom(frequency, frequency_count, table_log, 0,
             [delta_bit_count |-> ZeroArr(frequency_count),
              delta_state |-> ZeroArr(frequency_count), total |-> 0])

\* The tables of a call that has not built them.
NoTables == [ret |-> RET_ERROR, delta_bit_count |-> <<>>, delta_state |-> <<>>,
             coding_table |-> <<>>, symbol_table |-> <<>>, writes |-> <<>>,
             pos |-> 0, out_of_table |-> FALSE]

\* FSEEncoder::FSECreateStatesForEncoding: the status and the four tables,
\* which FSEEncode passes zero-initialised; with them, for the properties,
\* the positions the spread wrote and the position it ended at.
FSECreateStatesForEncoding(frequency, frequency_count, table_log) ==
  LET tablesize == Pow2(table_log)
      spread == Spread(frequency, frequency_count, table_log)
  IN
  IF spread.pos # 0
  THEN [ret |-> RET_ERROR, delta_bit_count |-> ZeroArr(frequency_count),
        delta_state |-> ZeroArr(frequency_count),
        coding_table |-> ZeroArr(tablesize),
        symbol_table |-> spread.symbol_table, writes |-> spread.writes,
        pos |-> spread.pos, out_of_table |-> FALSE]
  ELSE LET coding == CodingFrom(spread.symbol_table, tablesize, 0,
                       [coding_table |-> ZeroArr(tablesize),
                        cfreqs |-> Cumulate(frequency, frequency_count),
                        out_of_table |-> FALSE])
           deltas == Deltas(frequency, frequency_count, table_log)
       IN [ret |-> RET_OK, delta_bit_count |-> deltas.delta_bit_count,
           delta_state |-> deltas.delta_state,
           coding_table |-> coding.coding_table,
           symbol_table |-> spread.symbol_table, writes |-> spread.writes,
           pos |-> spread.pos, out_of_table |-> coding.out_of_table]

----------------------------------------------------------------------------
(* FSEEncodeSymbolGetNewState *)

\* uint16_t state = table_size, with table_size = 1 << table_log an int
InitialState(table_log) == U16(Pow2(table_log))

\* bits_out taken one bit wider than the source takes it.
BitsOutWide(state, sym, delta_bit_count) ==
  U8(U32Shr16(state + delta_bit_count[sym]) + 1)

\* uint8_t bits_out = (state + delta_bit_count[sym]) >> 16
BitsOut(state, sym, delta_bit_count) == U8(U32Shr16(state + delta_bit_count[sym]))

\* (state >> bits_out) + delta_state[sym], the index into the coding table
CodingIndex(state, bits_out, sym, delta_state) ==
  (IF bits_out >= 31 THEN 0 ELSE Shr(state, bits_out)) + delta_state[sym]

\* FSEEncodeSymbolGetNewState: the stream after the push and the new state.
\* A read outside the coding table gives the value wild, whatever the
\* memory there holds, and in_table = FALSE.
FSEEncodeSymbolGetNewState(bs, sym, state, t, wild) ==
  LET bits_out == BitsOut(state, sym, t.delta_bit_count)
      index == CodingIndex(state, bits_out, sym, t.delta_state)
  IN [bs |-> Push(bs, state, bits_out),
      bits_out |-> bits_out,
      index |-> index,
      in_table |-> index \in DOMAIN t.coding_table,
      state |-> IF index \in DOMAIN t.coding_table THEN t.coding_table[index]
                ELSE wild]

----------------------------------------------------------------------------
(* SerializingToBuffer *)

\* The bytes of a value in memory, least significant first.
RECURSIVE LittleEndian(_, _)
LittleEndian(v, n) == IF n <= 0 THEN <<>> ELSE <<v % 256>> \o LittleEndian(v \div 256, n - 1)

RECURSIVE BitsValue(_)
BitsValue(bits) ==
  IF bits = <<>> THEN 0 ELSE 2 * BitsValue(SubSeq(bits, 1, Len(bits) - 1)) + bits[Len(bits)]

\* The eight bytes of a 64-bit chunk, least significant first.
ChunkBytes(chunk) ==
  [k \in 1..8 |-> BitsValue(SubSeq(chunk, kMaxBitCount - 8 * k + 1, kMaxBitCount - 8 * (k - 1)))]

\* A store whose test rejects a last byte at max_size - 1: a variant that
\* the budget boundary must tell from the code.
StoreTight(st, bytes, field, checked, max_size) ==
  IF st.ret # RET_OK THEN st
  ELSE IF checked /\ st.offset + Len(bytes) >= max_size
       THEN [st EXCEPT !.ret = RET_ERROR]
       ELSE [st EXCEPT !.offset = @ + Len(bytes),
                       !.written = @ \o bytes,
                       !.fields = Append(@, [field |-> field, offset |-> st.offset,
                                             size |-> Len(bytes), checked |-> checked]),
                       !.out_of_budget = @ \/ (st.offset + Len(bytes) > max_size)]

\* No padding: a variant that the layout must tell from the code.
StorePaddingNone(st, max_size) == st

\* static_cast<float>(v) as the 32 bits of the float, for the integers
\* 0 <= v < 2^24, which a float holds exactly: the biased exponent above
\* the 23 bits of the fraction.
Float32Bits(v) ==
  IF v = 0 THEN 0
  ELSE LET e == CountBits(v) - 1
       IN (e + 127) * Pow2(23) + (v - Pow2(e)) * Pow2(23 - e)

\* One store of the function: *(T *)&out8[offset] = value; offset += sizeof(T).
\* checked is FALSE for a store that no test of offset + sizeof(T) against
\* max_size precedes. A store whose last byte lies outside the max_size
\* bytes of out8 is recorded in out_of_budget.
Store(st, bytes, field, checked, max_size) ==
  IF st.ret # RET_OK THEN st
  ELSE IF checked /\ st.offset + Len(bytes) > max_size
       THEN [st EXCEPT !.ret = RET_ERROR]
       ELSE [st EXCEPT !.offset = @ + Len(bytes),
                       !.written = @ \o bytes,
                       !.fields = Append(@, [field |-> field, offset |-> st.offset,
                                             size |-> Len(bytes), checked |-> checked]),
                       !.out_of_budget = @ \/ (st.offset + Len(bytes) > max_size)]

\* for (j = from; j < count; j++) store arr[j] in width bytes
RECURSIVE StoreArray(_, _, _, _, _, _, _)
StoreArray(st, arr, j, count, width, field, max_size) ==
  IF j >= count \/ st.ret # RET_OK THEN st
  ELSE StoreArray(Store(st, LittleEndian(arr[j], width), field, TRUE, max_size),
                  arr, j + 1, count, width, field, max_size)

\* while (offset % kAlignSize != 0) store (uint16_t)0
RECURSIVE StorePadding(_, _)
StorePadding(st, max_size) ==
  IF st.ret # RET_OK \/ st.offset % kAlignSize = 0 THEN st
  ELSE StorePadding(Store(st, LittleEndian(0, 2), "pad", TRUE, max_size), max_size)

\* for (j = 0; j < bs->GetCurrChunkIndex() + 1; j++) store bs->GetChunks()[j]
RECURSIVE StoreChunks(_, _, _, _)
StoreChunks(st, bs, j, max_size) ==
  IF j >= bs.curr_chunk_index + 1 \/ st.ret # RET_OK THEN st
  ELSE StoreChunks(Store(st, ChunkBytes(bs.chunks[j + 1]), "chunk", TRUE, max_size),
                   bs, j + 1, max_size)

\* FSEEncoder::SerializingToBuffer: the status, the bytes written to out8 in
\* order, and *out_size (0, what the caller initialised it to, when it is
\* not assigned).
SerializingToBuffer(bs, q, table_log, max_size) ==
  LET s0 == [ret |-> RET_OK, offset |-> 0, written |-> <<>>, fields |-> <<>>,
             out_of_budget |-> FALSE]
      s1 == Store(s0, LittleEndian(U16(q.size), 2), "symbol_count", FALSE, max_size)
      s2 == Store(s1, LittleEndian(U16(table_log), 2), "table_log", TRUE, max_size)
      chunksc == bs.curr_chunk_index + 2
      s3 == Store(s2, LittleEndian(chunksc, 4), "chunksc", TRUE, max_size)
      s4 == StoreArray(s3, q.frequency, 0, q.size, 4, "frequency", max_size)
      s5 == StorePadding(s4, max_size)
      s6 == StoreArray(s5, [j \in 0..(q.size - 1) |-> Float32Bits(q.centroids[j])],
                       0, q.size, 4, "centroid", max_size)
      s7 == StorePadding(s6, max_size)
      s8 == StoreChunks(s7, bs, 0, max_size)
      s9 == Store(s8, ChunkBytes(PadChunk(bs.curr_chunk)), "curr_chunk", TRUE, max_size)
      s10 == Store(s9, LittleEndian(U8(bs.curr_bit_count), 1), "curr_bit_count", TRUE,
                   max_size)
      s11 == IF s10.ret = RET_OK /\ s10.offset > max_size
             THEN [s10 EXCEPT !.ret = RET_ERROR] ELSE s10
  IN [ret |-> s11.ret,
      out_size |-> IF s11.ret = RET_OK THEN s11.offset ELSE 0,
      written |-> s11.written,
      fields |-> s11.fields,
      out_of_budget |-> s11.out_of_budget]

----------------------------------------------------------------------------
(* Tensors, weights and the squeeze step *)

\* sizeof of the element type
Width(data_type) ==
  IF data_type = kNumberTypeInt8 THEN 1
  ELSE IF data_type = kNumberTypeInt16 THEN 2 ELSE 4

\* A tensor: Size() is size, data_c() is data (quantized values for a raw
\* tensor, bytes for a compressed one).
RawTensor(data_type, data) ==
  [data_type |-> data_type, shape |-> <<Len(data)>>, data |-> data,
   size |-> Len(data) * Width(data_type), compression |-> kNoCompression]

\* Tensor(kNumberTypeFloat32, shape, out_size, kFSE), filled by memcpy_s
CompressedTensor(shape, bytes, out_size) ==
  [data_type |-> kNumberTypeFloat32, shape |-> shape,
   data |-> SubSeq(bytes, 1, out_size), size |-> out_size, compression |-> kFSE]

ToAbstract(tensor) == [type |-> tensor.data_type, shape |-> tensor.shape]

WeightOf(tensor) == [default_param |-> tensor, abstract |-> ToAbstract(tensor)]

\* An FSEQuant that nothing has filled.
NoQuant == [frequency |-> <<>>, centroids |-> <<>>, size |-> 0,
            symbol_table |-> <<>>, symbol_table_count |-> 0]

ValuesOf(data) == {data[j] : j \in 1..Len(data)}

\* The symbol of a value: its rank among the values the tensor holds.
SymbolOf(v, data) == Cardinality({u \in ValuesOf(data) : u < v})

\* The value of a symbol.
ValueOf(sym, data) == CHOOSE v \in ValuesOf(data) : SymbolOf(v, data) = sym

CountOf(v, data) == Cardinality({j \in 1..Len(data) : data[j] = v})

\* SqueezeQuant: the alphabet of the values present, their counts (the
\* histogram, every entry at least 1), their centroids (the value a symbol
\* stands for) and the tensor's elements as symbols.
SqueezeQuant(data, ok) ==
  LET size == Cardinality(ValuesOf(data)) IN
  IF ~ok \/ size > MAX_SYMS
  THEN [ret |-> RET_ERROR, q |-> NoQuant]
  ELSE [ret |-> RET_OK,
        q |-> [frequency |-> [sym \in 0..(size - 1) |-> CountOf(ValueOf(sym, data), data)],
               centroids |-> [sym \in 0..(size - 1) |-> ValueOf(sym, data)],
               size |-> size,
               symbol_table |-> [j \in 0..(Len(data) - 1) |-> SymbolOf(data[j + 1], data)],
               symbol_table_count |-> Len(data)]]

\* max_size > kMaxModelBufferSize, the 2G of the source, which is past the
\* largest integer of the model checker: compared in units of 1024 bytes.
kMaxModelBufferKiB == 1024 * 1024 * 2
ExceedsModelBuffer(max_size) ==
  \/ max_size \div 1024 > kMaxModelBufferKiB
  \/ (max_size \div 1024 = kMaxModelBufferKiB /\ max_size % 1024 > 0)

\* A budget wider than the tensor: a variant that the size bound must tell
\* from the code.
MaxSizeWide(tensor_info) == tensor_info.size + kMaxBitCount

\* auto max_size = tensor_info->Size()
MaxSizeOf(tensor_info) == tensor_info.size

\* What a call of SerializingToTensor leaves behind, for the properties:
\* the budget, *out_size, the stores made and the bytes written.
SerOf(max_size, b) ==
  [max_size |-> max_size, out_size |-> b.out_size, fields |-> b.fields,
   written |-> b.written, out_of_budget |-> b.out_of_budget]

NoSer == [max_size |-> 0, out_size |-> 0, fields |-> <<>>, written |-> <<>>,
          out_of_budget |-> FALSE]

\* A SerializingToTensor that replaces the weight before it knows of a
\* failure: a variant that the frame property must tell from the code.
SerializingToTensorEager(w, bs, q, table_log, malloc_ok, copy_ok) ==
  LET tensor_info == w.default_param
      max_size == MaxSizeOf(tensor_info)
      b == SerializingToBuffer(bs, q, table_log, max_size)
  IN [ret |-> IF b.ret = RET_OK /\ malloc_ok /\ copy_ok THEN RET_OK ELSE RET_ERROR,
      weight |-> WeightOf(CompressedTensor(tensor_info.shape, b.written, b.out_size)),
      ser |-> SerOf(max_size, b)]

\* FSEEncoder::SerializingToTensor: the status and the weight it leaves.
SerializingToTensor(w, bs, q, table_log, malloc_ok, copy_ok) ==
  LET tensor_info == w.default_param
      max_size == MaxSizeOf(tensor_info)
  IN
  IF max_size = 0 \/ ExceedsModelBuffer(max_size)
  THEN [ret |-> RET_ERROR, weight |-> w, ser |-> [NoSer EXCEPT !.max_size = max_size]]
  ELSE IF ~malloc_ok
  THEN [ret |-> RET_NULL_PTR, weight |-> w, ser |-> [NoSer EXCEPT !.max_size = max_size]]
  ELSE LET b == SerializingToBuffer(bs, q, table_log, max_size) IN
       IF b.ret # RET_OK
       THEN [ret |-> b.ret, weight |-> w, ser |-> SerOf(max_size, b)]
       ELSE IF ~copy_ok
       THEN [ret |-> RET_ERROR, weight |-> w, ser |-> SerOf(max_size, b)]
       ELSE [ret |-> RET_OK,
             weight |-> WeightOf(CompressedTensor(tensor_info.shape, b.written,
                                                  b.out_size)),
             ser |-> SerOf(max_size, b)]

----------------------------------------------------------------------------
(* The tensors the model compresses *)

\* Quantized values are 0..MaxVal-1.
MaxVal == 3
\* A tensor repeats a pattern of at most MaxBase values,
MaxBase == 2
\* and holds at most MaxShort elements, or LongCount of them.
MaxShort == 3
LongCount == 41
\* or LongCount zeros with a 1 among the last SpikeBack of them.
SpikeBack == 13

Bases == UNION {[1..k -> 0..(MaxVal - 1)] : k \in 1..MaxBase}

Cycle(base, n) == [j \in 1..n |-> base[((j - 1) % Len(base)) + 1]]

Counts == (0..MaxShort) \cup {LongCount}

\* A tensor of n zeros but for a single 1, at index p.
Spike(n, p) == [j \in 1..n |-> IF j = p + 1 THEN 1 ELSE 0]

\* The long tensors whose single 1 is one of the last SpikeBack elements.
Spikes == {Spike(LongCount, LongCount - back) : back \in 1..SpikeBack}

Datas == {Cycle(base, n) : base \in Bases, n \in Counts} \cup Spikes

DataTypes == {kNumberTypeInt8, kNumberTypeInt16, kNumberTypeFloat32}

\* What a read outside the coding table may return: the least and the
\* greatest uint16_t and a value that looks like a state.
WildValues(table_log) == {0, 65535, Pow2(table_log)}

----------------------------------------------------------------------------
(* TfliteModelParser::ConvertOps: what the function holds *)

RET_NOT_FIND_OP == "RET_NOT_FIND_OP"

\* The parser before ConvertOps is called: the number of operators of the
\* subgraph, op_idx, the operator of the current iteration, status, the
\* constant inputs of the current operator still to convert, the operators
\* for which res_graph_->NewCNode has been called, and the steps that have
\* failed, each with its operator.
NoParser ==
  [operators |-> 0, op_idx |-> 0, op |-> 0, status |-> RET_ERROR,
   const_inputs |-> 0, cnodes |-> {}, failures |-> {}]

----------------------------------------------------------------------------
(* FSEEncoder::Compress, step by step *)

VARIABLES
  pc,          \* where the call stands
  weight,      \* the weight parameter: its default_param and its abstract
  fse_quant,   \* FSEQuant fse_quant
  table_log,   \* int table_log
  bs,          \* FSEBitStream bs
  tables,      \* FSEEncode's delta_number_bits, delta_find_state, coding_table, symtable
  state,       \* FSEEncode's uint16_t state
  i,           \* FSEEncode's loop index
  ret,         \* int ret
  heap,        \* the blocks this call has acquired and not released
  ser,         \* what SerializingToTensor left: max_size, out_size, the stores
  called,      \* the weight as it was when Compress was called
  steps,       \* the steps of Compress run in this call, each with its status
  events,      \* the operations on the stream in this call, in order
  ub,          \* a read outside the coding table has happened in this call
  history,     \* the calls that have returned (kept only by SpecDet)
  parser       \* TfliteModelParser::ConvertOps: its locals and the graph (SpecOps)

vars == <<pc, weight, fse_quant, table_log, bs, tables, state, i, ret, heap,
          ser, called, steps, events, ub, history, parser>>

Init ==
  /\ pc = "idle"
  /\ weight = WeightOf(RawTensor(kNumberTypeInt8, <<>>))
  /\ fse_quant = NoQuant
  /\ table_log = 0
  /\ bs = NoStream
  /\ tables = NoTables
  /\ state = 0
  /\ i = 0
  /\ ret = RET_ERROR
  /\ heap = {}
  /\ ser = NoSer
  /\ called = WeightOf(RawTensor(kNumberTypeInt8, <<>>))
  /\ steps = <<>>
  /\ events = <<>>
  /\ ub = FALSE
  /\ history = <<>>
  /\ parser = NoParser

Step(name, status) == [step |-> name, ret |-> status]

\* Compress(weight, q_param) is called: its locals are constructed
\* (int ret = RET_ERROR; int table_log = 0; FSEQuant and FSEBitStream by
\* their constructors).
Enter(w) ==
  /\ weight' = w
  /\ called' = w
  /\ fse_quant' = NoQuant
  /\ table_log' = 0
  /\ bs' = NoStream
  /\ tables' = NoTables
  /\ state' = 0
  /\ i' = 0
  /\ ret' = RET_ERROR
  /\ heap' = {}
  /\ ser' = NoSer
  /\ steps' = <<>>
  /\ events' = <<>>
  /\ ub' = FALSE
  /\ pc' = "type_check"

Call ==
  /\ pc = "idle"
  /\ \E data_type \in DataTypes, data \in Datas :
       Enter(WeightOf(RawTensor(data_type, data)))
  /\ UNCHANGED <<parser, history>>

\* if (data_type == kNumberTypeInt16) ... else if (== kNumberTypeInt8) ...
\* else return ret
TypeCheck ==
  /\ pc = "type_check"
  /\ IF weight.default_param.data_type \in {kNumberTypeInt16, kNumberTypeInt8}
     THEN /\ pc' = "squeeze"
          /\ steps' = Append(steps, Step("type_check", RET_OK))
     ELSE /\ pc' = "returned"
          /\ steps' = Append(steps, Step("type_check", ret))
  /\ UNCHANGED <<parser, weight, fse_quant, table_log, bs, tables, state, i, ret, heap,
                 ser, called, events, ub, history>>

\* ret = SqueezeQuant<T>(weight, q_param, &fse_quant)
Squeeze ==
  /\ pc = "squeeze"
  /\ \E ok \in BOOLEAN :
       LET r == SqueezeQuant(weight.default_param.data, ok) IN
       /\ ret' = r.ret
       /\ fse_quant' = r.q
       /\ heap' = IF r.ret = RET_OK THEN heap \cup {"symbol_table"} ELSE heap
       /\ steps' = Append(steps, Step("squeeze", r.ret))
       /\ pc' = IF r.ret = RET_OK THEN "normalize" ELSE "returned"
  /\ UNCHANGED <<parser, weight, table_log, bs, tables, state, i, ser, called, events,
                 ub, history>>

\* A Compress that goes on after a failed normalization: a variant that
\* the abort property must tell from the code.
NormalizeContinue ==
  /\ pc = "normalize"
  /\ LET r == NormalizeFrequency(fse_quant.frequency, fse_quant.size) IN
     /\ ret' = r.ret
     /\ table_log' = r.table_log
     /\ fse_quant' = [fse_quant EXCEPT !.frequency = r.frequency]
     /\ steps' = Append(steps, Step("normalize", r.ret))
     /\ pc' = "create"
  /\ UNCHANGED <<parser, weight, bs, tables, state, i, heap, ser, called, events, ub,
                 history>>

\* ret = NormalizeFrequency(&fse_quant, &table_log)
Normalize ==
  /\ pc = "normalize"
  /\ LET r == NormalizeFrequency(fse_quant.frequency, fse_quant.size) IN
     /\ ret' = r.ret
     /\ table_log' = r.table_log
     /\ fse_quant' = [fse_quant EXCEPT !.frequency = r.frequency]
     /\ steps' = Append(steps, Step("normalize", r.ret))
     /\ pc' = IF r.ret = RET_OK THEN "create" ELSE "returned"
  /\ UNCHANGED <<parser, weight, bs, tables, state, i, heap, ser, called, events, ub,
                 history>>

\* ret = bs.Create(k16Bit * fse_quant.symbol_table_count); on failure
\* free(fse_quant.symbol_table) and return.
CreateStream ==
  /\ pc = "create"
  /\ \E alloc_ok \in BOOLEAN :
       LET r == Create(bs, k16Bit * fse_quant.symbol_table_count, alloc_ok) IN
       /\ ret' = r.ret
       /\ bs' = r.bs
       /\ steps' = Append(steps, Step("create", r.ret))
       /\ IF r.ret = RET_OK
          THEN /\ heap' = heap \cup {"chunks"}
               /\ pc' = "encode"
          ELSE /\ heap' = heap \ {"symbol_table"}
               /\ pc' = "returned"
  /\ UNCHANGED <<parser, weight, fse_quant, table_log, tables, state, i, ser, called,
                 events, ub, history>>

\* FSEEncode is entered: FSECreateStatesForEncoding on zeroed tables, then
\* uint16_t state = table_size. On failure Compress frees the symbol table
\* and returns.
CreateStates ==
  /\ pc = "encode"
  /\ LET t == FSECreateStatesForEncoding(fse_quant.frequency, fse_quant.size, table_log) IN
     /\ tables' = t
     /\ ret' = t.ret
     /\ IF t.ret = RET_OK
        THEN /\ state' = InitialState(table_log)
             /\ pc' = "prime"
             /\ steps' = steps
             /\ heap' = heap
        ELSE /\ state' = state
             /\ pc' = "returned"
             /\ steps' = Append(steps, Step("encode", t.ret))
             /\ heap' = heap \ {"symbol_table"}
  /\ UNCHANGED <<parser, weight, fse_quant, table_log, bs, i, ser, called, events, ub,
                 history>>

\* One call of FSEEncodeSymbolGetNewState on symbol data[at], entered at
\* position from and left at position to. The first read outside the
\* coding table returns any of the wild values; the model does not follow a
\* call past a second one, or past a push of more than 16 bits.
Transition(from, at, kind, to) ==
  /\ pc = from
  /\ \E wild \in WildValues(table_log) :
       LET sym == fse_quant.symbol_table[at]
           r == FSEEncodeSymbolGetNewState(bs, sym, state, tables, wild)
       IN
       IF (ub /\ ~r.in_table) \/ r.bits_out > k16Bit
       THEN /\ pc' = "undefined"
            /\ ub' = TRUE
            /\ UNCHANGED <<parser, bs, state, events>>
       ELSE /\ bs' = r.bs
            /\ state' = r.state
            /\ ub' = (ub \/ ~r.in_table)
            /\ events' = Append(events, [op |-> kind, sym |-> sym, from |-> state,
                                         bits |-> r.bits_out, index |-> r.index,
                                         to |-> r.state])
            /\ pc' = to

\* state = FSEEncodeSymbolGetNewState(bs, data[0], state, ...): the priming
\* transition.
Prime ==
  /\ fse_quant.symbol_table_count > 0
  /\ Transition("prime", 0, "prime", "empty")
  /\ UNCHANGED <<parser, weight, fse_quant, table_log, tables, i, ret, heap, ser, called,
                 steps, history>>

\* An FSEEncode that goes on to the loop without bs->Empty(): a variant
\* that the discard of the priming bits must tell from the code.
EmptyStreamKept ==
  /\ pc = "empty"
  /\ bs' = bs
  /\ i' = 0
  /\ events' = Append(events, [op |-> "Empty"])
  /\ pc' = "loop"
  /\ UNCHANGED <<parser, weight, fse_quant, table_log, tables, state, ret, heap, ser,
                 called, steps, ub, history>>

\* bs->Empty(), and the loop starts at i = 0
EmptyStream ==
  /\ pc = "empty"
  /\ bs' = Empty(bs)
  /\ i' = 0
  /\ events' = Append(events, [op |-> "Empty"])
  /\ pc' = "loop"
  /\ UNCHANGED <<parser, weight, fse_quant, table_log, tables, state, ret, heap, ser,
                 called, steps, ub, history>>

\* The loop body: state = FSEEncodeSymbolGetNewState(bs, data[i], state, ...)
EncodeSymbol ==
  /\ i < fse_quant.symbol_table_count
  /\ Transition("loop", i, "symbol", "loop")
  /\ i' = i + 1
  /\ UNCHANGED <<parser, weight, fse_quant, table_log, tables, ret, heap, ser, called,
                 steps, history>>

\* After the loop: bs->Push(state - table_size, table_log); return ret.
PushFinalState ==
  /\ pc = "loop"
  /\ i >= fse_quant.symbol_table_count
  /\ bs' = Push(bs, state - Pow2(table_log), table_log)
  /\ events' = Append(events, [op |-> "final", value |-> state - Pow2(table_log),
                               bits |-> table_log])
  /\ steps' = Append(steps, Step("encode", ret))
  /\ pc' = "encoded"
  /\ UNCHANGED <<parser, weight, fse_quant, table_log, tables, state, i, ret, heap, ser,
                 called, ub, history>>

\* bs.Flush()
FlushStream ==
  /\ pc = "encoded"
  /\ bs' = Flush(bs)
  /\ events' = Append(events, [op |-> "Flush"])
  /\ steps' = Append(steps, Step("flush", RET_OK))
  /\ pc' = "serialize"
  /\ UNCHANGED <<parser, weight, fse_quant, table_log, tables, state, i, ret, heap, ser,
                 called, ub, history>>

\* ret = SerializingToTensor(weight, &bs, fse_quant, table_log); on failure
\* free(fse_quant.symbol_table) and return.
Serialize ==
  /\ pc = "serialize"
  /\ \E malloc_ok \in BOOLEAN, copy_ok \in BOOLEAN :
       LET r == SerializingToTensor(weight, bs, fse_quant, table_log, malloc_ok, copy_ok) IN
       /\ ret' = r.ret
       /\ weight' = r.weight
       /\ ser' = r.ser
       /\ steps' = Append(steps, Step("serialize", r.ret))
       /\ IF r.ret = RET_OK
          THEN /\ pc' = "release"
               /\ heap' = heap
          ELSE /\ pc' = "returned"
               /\ heap' = heap \ {"symbol_table"}
  /\ UNCHANGED <<parser, fse_quant, table_log, bs, tables, state, i, called, events, ub,
                 history>>

\* bs.Free(); free(fse_quant.symbol_table); return RET_OK
Release ==
  /\ pc = "release"
  /\ bs' = Free(bs)
  /\ heap' = heap \ {"chunks", "symbol_table"}
  /\ ret' = RET_OK
  /\ pc' = "returned"
  /\ UNCHANGED <<parser, weight, fse_quant, table_log, tables, state, i, ser, called,
                 steps, events, ub, history>>

\* Compress has returned: its locals are gone and the caller has the status
\* and the weight. The compressor is ready for another weight.
Return ==
  /\ pc = "returned"
  /\ pc' = "idle"
  /\ weight' = WeightOf(RawTensor(kNumberTypeInt8, <<>>))
  /\ called' = WeightOf(RawTensor(kNumberTypeInt8, <<>>))
  /\ fse_quant' = NoQuant
  /\ table_log' = 0
  /\ bs' = NoStream
  /\ tables' = NoTables
  /\ state' = 0
  /\ i' = 0
  /\ ret' = RET_ERROR
  /\ heap' = {}
  /\ ser' = NoSer
  /\ steps' = <<>>
  /\ events' = <<>>
  /\ ub' = FALSE
  /\ UNCHANGED <<parser, history>>

Next ==
  \/ Call
  \/ TypeCheck
  \/ Squeeze
  \/ Normalize
  \/ CreateStream
  \/ CreateStates
  \/ Prime
  \/ EmptyStream
  \/ EncodeSymbol
  \/ PushFinalState
  \/ FlushStream
  \/ Serialize
  \/ Release
  \/ Return

Spec == Init /\ [][Next]_vars

----------------------------------------------------------------------------
(* The inverse state machine *)

\* The index of the highest set bit of x >= 1.
HighBit(x) == CountBits(x) - 1

\* The symbols of the stream, as sequences.
SeqOfArr(arr, n) == [j \in 1..n |-> arr[j - 1]]

\* The decoder of a tANS stream: the state is a slot of the spread table
\* (plus table_size); the slot's symbol is emitted, and the state before is
\* rebuilt from the rank of the slot among its symbol's slots and the bits
\* popped off the end of the stream.
RECURSIVE DecodeFrom(_, _, _, _, _, _, _)
DecodeFrom(st, rest, k, symbol_table, frequency, tl, acc) ==
  IF k = 0 THEN [ok |-> TRUE, symbols |-> acc, rest |-> rest, state |-> st]
  ELSE LET slot == st - Pow2(tl) IN
       IF slot \notin DOMAIN symbol_table
       THEN [ok |-> FALSE, symbols |-> acc, rest |-> rest, state |-> st]
       ELSE LET sym == symbol_table[slot]
                rank == Cardinality({x \in 0..(slot - 1) : symbol_table[x] = sym})
                sub == frequency[sym] + rank
                nb == tl - HighBit(sub)
            IN IF Len(rest) < nb
               THEN [ok |-> FALSE, symbols |-> acc, rest |-> rest, state |-> st]
               ELSE DecodeFrom(Shl(sub, nb)
                                 + BitsValue(SubSeq(rest, Len(rest) - nb + 1, Len(rest))),
                               SubSeq(rest, 1, Len(rest) - nb), k - 1,
                               symbol_table, frequency, tl, <<sym>> \o acc)

\* The last table_log bits are the final state; n symbols are recovered,
\* last to first.
Decode(bits, n, symbol_table, frequency, tl) ==
  IF Len(bits) < tl
  THEN [ok |-> FALSE, symbols |-> <<>>, rest |-> bits, state |-> 0]
  ELSE DecodeFrom(Pow2(tl) + BitsValue(SubSeq(bits, Len(bits) - tl + 1, Len(bits))),
                  SubSeq(bits, 1, Len(bits) - tl), n,
                  symbol_table, frequency, tl, <<>>)

Decoded == Decode(Content(bs), fse_quant.symbol_table_count, tables.symbol_table,
                  fse_quant.frequency, table_log)

----------------------------------------------------------------------------
(* NormalizeFrequency on its own: every histogram of up to MaxHistLen      *)
(* entries, each at most MaxCount                                          *)

MaxHistLen == 3
MaxCount == 5

Histograms == UNION {[0..(n - 1) -> 0..MaxCount] : n \in 0..MaxHistLen}

\* The variables a specification of one function does not use.
Unused(names) ==
  /\ ("weight" \in names \/ weight = WeightOf(RawTensor(kNumberTypeInt8, <<>>)))
  /\ ("fse_quant" \in names \/ fse_quant = NoQuant)
  /\ ("table_log" \in names \/ table_log = 0)
  /\ ("bs" \in names \/ bs = NoStream)
  /\ ("tables" \in names \/ tables = NoTables)
  /\ ("ser" \in names \/ ser = NoSer)
  /\ ("events" \in names \/ events = <<>>)
  /\ state = 0
  /\ i = 0
  /\ ret = RET_ERROR
  /\ heap = {}
  /\ called = WeightOf(RawTensor(kNumberTypeInt8, <<>>))
  /\ steps = <<>>
  /\ ub = FALSE
  /\ history = <<>>
  /\ ("parser" \in names \/ parser = NoParser)

InitNorm ==
  /\ pc = "normalize_in"
  /\ \E h \in Histograms :
       /\ fse_quant = [NoQuant EXCEPT !.frequency = h,
                                      !.size = Cardinality(DOMAIN h)]
       /\ events = <<[op |-> "histogram", frequency |-> h]>>
  /\ Unused({"fse_quant", "events"})

\* NormalizeFrequency(&fse_quant, &table_log)
NormalizeCall ==
  /\ pc = "normalize_in"
  /\ LET r == NormalizeFrequency(fse_quant.frequency, fse_quant.size) IN
     /\ ret' = r.ret
     /\ table_log' = r.table_log
     /\ fse_quant' = [fse_quant EXCEPT !.frequency = r.frequency]
  /\ pc' = "normalize_out"
  /\ UNCHANGED <<parser, weight, bs, tables, state, i, heap, ser, called, steps, events,
                 ub, history>>

NextNorm == NormalizeCall

SpecNorm == InitNorm /\ [][NextNorm]_vars

\* The histogram NormalizeFrequency was given.
InputHistogram == events[1].frequency

\* C2: for a histogram of at least one entry, none negative, with a
\* positive sum, NormalizeFrequency succeeds and leaves every frequency at
\* least 1, the frequencies summing to 2^table_log, with table_log in
\* 1..MAX_TABLE_LOG.
C2_Normalized ==
  (/\ pc = "normalize_out"
   /\ fse_quant.size >= 1
   /\ SumArr(InputHistogram, fse_quant.size) > 0)
  => /\ ret = RET_OK
     /\ table_log \in 1..MAX_TABLE_LOG
     /\ \A sym \in 0..(fse_quant.size - 1) : fse_quant.frequency[sym] >= 1
     /\ SumArr(fse_quant.frequency, fse_quant.size) = Pow2(table_log)

\* A histogram with an empty entry and a rounded sum above the table size
\* has been normalized.
C2_Witness ==
  /\ pc = "normalize_out"
  /\ fse_quant.size = MaxHistLen
  /\ \E sym \in 0..(fse_quant.size - 1) : InputHistogram[sym] = 0
  /\ ret = RET_OK
  /\ fse_quant.frequency # [sym \in 0..(fse_quant.size - 1) |->
                              RoundFrequency(InputHistogram[sym], Pow2(table_log),
                                             SumArr(InputHistogram, fse_quant.size))]

\* C11: when the frequencies given to NormalizeFrequency sum to zero, an
\* empty alphabet included, it returns an error and every entry of the
\* frequency table is what it was.
C11_ZeroSumRejected ==
  (pc = "normalize_out" /\ SumArr(InputHistogram, fse_quant.size) = 0) =>
    /\ ret = RET_ERROR
    /\ fse_quant.frequency = InputHistogram

\* NormalizeFrequency has returned on the longest histogram of zeros.
C11_Witness ==
  /\ pc = "normalize_out"
  /\ fse_quant.size = MaxHistLen
  /\ \A sym \in 0..(fse_quant.size - 1) : InputHistogram[sym] = 0
  /\ ret = RET_ERROR

\* NormalizeFrequency has returned for the histogram {5,3,2}.
ExampleNormalized ==
  /\ pc = "normalize_out"
  /\ fse_quant.size = 3
  /\ SeqOfArr(InputHistogram, 3) = <<5, 3, 2>>

----------------------------------------------------------------------------
(* FSECreateStatesForEncoding on its own: every table_log up to            *)
(* MaxSpreadLog, and the frequency tables of up to MaxSpreadSyms symbols   *)
(* whose entries after the first are at most MaxTail                       *)

MaxSpreadLog == 6
MaxSpreadSyms == 3
MaxTail == 4

\* The frequency tables of n symbols, all entries at least 1, that sum to
\* total.
SpreadTables(n, total) ==
  {f \in {[sym \in 0..(n - 1) |-> IF sym = 0 THEN total - SumArr(tail, n - 1)
                                              ELSE tail[sym - 1]] :
             tail \in [0..(n - 2) -> 1..MaxTail]} :
     f[0] >= 1}

InitSpread ==
  /\ pc = "create_states_in"
  /\ table_log \in 1..MaxSpreadLog
  /\ \E n \in 1..MaxSpreadSyms :
       \E f \in SpreadTables(n, Pow2(table_log)) :
         fse_quant = [NoQuant EXCEPT !.frequency = f, !.size = n]
  /\ Unused({"fse_quant", "table_log"})

\* FSECreateStatesForEncoding(frequency, frequency_count, table_log, ...)
CreateStatesCall ==
  /\ pc = "create_states_in"
  /\ LET t == FSECreateStatesForEncoding(fse_quant.frequency, fse_quant.size, table_log) IN
     /\ tables' = t
     /\ ret' = t.ret
  /\ pc' = "create_states_out"
  /\ UNCHANGED <<parser, weight, fse_quant, table_log, bs, state, i, heap, ser, called,
                 steps, events, ub, history>>

NextSpread == CreateStatesCall

SpecSpread == InitSpread /\ [][NextSpread]_vars

\* The spread wrote every slot of the table exactly once and ended at slot 0.
SpreadComplete ==
  /\ Len(tables.writes) = Pow2(table_log)
  /\ \A slot \in 0..(Pow2(table_log) - 1) :
       Cardinality({k \in 1..Len(tables.writes) : tables.writes[k] = slot}) = 1
  /\ tables.pos = 0

States == Pow2(table_log)..(2 * Pow2(table_log) - 1)

\* FSECreateStatesForEncoding has built the tables of the call.
TablesBuilt == pc = "create_states_out" /\ tables.ret = RET_OK

\* n + 1 of the source's comment: table_log - CountBits(f - 1), and
\* table_log for f = 1.
LargerBits(f) == IF f = 1 THEN table_log ELSE table_log - CountBits(f - 1)

Normalized == table_log = TableLogOf(fse_quant.size)

\* cum(sym): the sum of the frequencies of the symbols before sym.
Cum(sym) == SumArr(fse_quant.frequency, sym)

----------------------------------------------------------------------------
(* SerializingToBuffer on its own: streams of up to MaxSerPush pushes of   *)
(* 16 bits, flushed or not, tables of up to MaxSerSyms symbols and budgets *)
(* of up to MaxBudget bytes                                                *)

MaxSerSyms == 3
MaxSerPush == 9
MaxBudget == 70

\* The values pushed: one low bit, and an alternating pattern.
SerValues == {1, 43690}

RECURSIVE PushAll(_, _, _)
PushAll(stream, value, k) ==
  IF k <= 0 THEN stream ELSE PushAll(Push(stream, value, k16Bit), value, k - 1)

\* A stream created for MaxSerPush pushes that has taken k of them.
SerStream(value, k, flushed) ==
  LET pushed == PushAll(Create(NoStream, k16Bit * MaxSerPush, TRUE).bs, value, k)
  IN IF flushed THEN Flush(pushed) ELSE pushed

\* The tables of n symbols: the normalized histogram 1, 2, .. n and the
\* centroids 0, 1, .. n-1.
SerQuant(n) ==
  [NoQuant EXCEPT !.size = n,
                  !.frequency = NormalizeFrequency([sym \in 0..(n - 1) |-> sym + 1], n).frequency,
                  !.centroids = [sym \in 0..(n - 1) |-> sym]]

InitSer ==
  /\ pc = "serialize_in"
  /\ \E n \in 1..MaxSerSyms :
       /\ fse_quant = SerQuant(n)
       /\ table_log = TableLogOf(n)
  /\ \E value \in SerValues, k \in 0..MaxSerPush, flushed \in BOOLEAN :
       bs = SerStream(value, k, flushed)
  /\ \E max_size \in 0..MaxBudget : ser = [NoSer EXCEPT !.max_size = max_size]
  /\ Unused({"fse_quant", "table_log", "bs", "ser"})

\* SerializingToBuffer(bs, fse_quant, table_log, max_size, out8, &out_size)
SerializeCall ==
  /\ pc = "serialize_in"
  /\ LET b == SerializingToBuffer(bs, fse_quant, table_log, ser.max_size) IN
     /\ ser' = SerOf(ser.max_size, b)
     /\ ret' = b.ret
  /\ pc' = "serialize_out"
  /\ UNCHANGED <<parser, weight, fse_quant, table_log, bs, tables, state, i, heap, called,
                 steps, events, ub, history>>

NextSer == SerializeCall

SpecSer == InitSer /\ [][NextSer]_vars

\* R: the bytes the function writes for this stream and these tables when
\* the budget is the largest a caller can pass.
RequiredSize ==
  SerializingToBuffer(bs, fse_quant, table_log, 1023 * kMaxModelBufferKiB).out_size

\* C4: a call of SerializingToBuffer with max_size = R succeeds with
\* out_size = R; a call with max_size = R - 1 fails with an error and
\* assigns no out_size.
C4_BudgetBoundary ==
  pc = "serialize_out" =>
    /\ ser.max_size = RequiredSize => (ret = RET_OK /\ ser.out_size = RequiredSize)
    /\ ser.max_size = RequiredSize - 1 => (ret = RET_ERROR /\ ser.out_size = 0)

\* A call with one byte less than needed, for a stream with committed
\* chunks and a partial one, has failed.
C4_Witness ==
  /\ pc = "serialize_out"
  /\ ser.max_size = RequiredSize - 1
  /\ bs.curr_chunk_index >= 0
  /\ bs.curr_bit_count > 0
  /\ ret = RET_ERROR

\* The stores of one field, in order.
FieldsNamed(name) == SelectSeq(ser.fields, LAMBDA g : g.field = name)

\* The bytes written at offset .. offset + size - 1.
BytesAt(offset, size) == SubSeq(ser.written, offset + 1, offset + size)

\* The count stores of the field name are size bytes each, one after the
\* other from offset first.
Section(name, count, first, size) ==
  /\ Len(FieldsNamed(name)) = count
  /\ \A k \in 1..count :
       /\ FieldsNamed(name)[k].offset = first + size * (k - 1)
       /\ FieldsNamed(name)[k].size = size

\* C6: on success the stores are, at strictly increasing offsets, the
\* uint16 symbol count N at 0, the uint16 table_log at 2, the uint32 current
\* chunk index + 2 at 4, the N uint32 frequencies from 8, zero padding to a
\* multiple of 8, the N float32 centroids, zero padding to a multiple of 8,
\* the C+1 committed chunks, the current chunk and the uint8 current bit
\* count; out_size = 8 + 8N + (8 if N is odd) + 8(C+1) + 9.
C6_Layout ==
  (pc = "serialize_out" /\ ret = RET_OK) =>
    LET N == fse_quant.size
        C == bs.curr_chunk_index
        pad == IF N % 2 = 1 THEN 4 ELSE 0
        centroid0 == 8 + 4 * N + pad
        chunk0 == centroid0 + 4 * N + pad
    IN
    /\ \A k \in 1..(Len(ser.fields) - 1) :
         /\ ser.fields[k].offset < ser.fields[k + 1].offset
         /\ ser.fields[k + 1].offset = ser.fields[k].offset + ser.fields[k].size
    /\ Section("symbol_count", 1, 0, 2)
    /\ BytesAt(0, 2) = LittleEndian(N, 2)
    /\ Section("table_log", 1, 2, 2)
    /\ BytesAt(2, 2) = LittleEndian(table_log, 2)
    /\ Section("chunksc", 1, 4, 4)
    /\ BytesAt(4, 4) = LittleEndian(C + 2, 4)
    /\ Section("frequency", N, 8, 4)
    /\ \A sym \in 0..(N - 1) :
         BytesAt(8 + 4 * sym, 4) = LittleEndian(fse_quant.frequency[sym], 4)
    /\ Section("centroid", N, centroid0, 4)
    /\ centroid0 % 8 = 0
    /\ \A sym \in 0..(N - 1) :
         BytesAt(centroid0 + 4 * sym, 4) =
           LittleEndian(Float32Bits(fse_quant.centroids[sym]), 4)
    /\ Section("chunk", C + 1, chunk0, 8)
    /\ chunk0 % 8 = 0
    /\ \A j \in 0..C : BytesAt(chunk0 + 8 * j, 8) = ChunkBytes(bs.chunks[j + 1])
    /\ Section("curr_chunk", 1, chunk0 + 8 * (C + 1), 8)
    /\ Section("curr_bit_count", 1, chunk0 + 8 * (C + 1) + 8, 1)
    /\ BytesAt(chunk0 + 8 * (C + 1) + 8, 1) = <<bs.curr_bit_count>>
    /\ Len(FieldsNamed("pad")) = pad
    /\ \A k \in 1..Len(FieldsNamed("pad")) :
         BytesAt(FieldsNamed("pad")[k].offset, FieldsNamed("pad")[k].size) = <<0, 0>>
    /\ ser.out_size = 8 + 8 * N + (IF N % 2 = 1 THEN 8 ELSE 0) + 8 * (C + 1) + 9
    /\ Len(ser.written) = ser.out_size

\* An odd number of symbols, two committed chunks and a partial chunk have
\* been serialized.
C6_Witness ==
  /\ pc = "serialize_out"
  /\ ret = RET_OK
  /\ fse_quant.size = 3
  /\ bs.curr_chunk_index = 1
  /\ bs.curr_bit_count = k16Bit
  /\ Len(FieldsNamed("pad")) = 4

----------------------------------------------------------------------------
(* Properties of Compress *)

\* The tensor Compress was called on.
Original == called.default_param

\* The bytes SerializingToBuffer needs for the stream and the tables of the
\* call, while the stream is still held.
Needed ==
  SerializingToBuffer(bs, fse_quant, table_log, 1023 * kMaxModelBufferKiB).out_size

LastStep == steps[Len(steps)]

\* C5: when Compress succeeds the new payload is out_size bytes and no
\* larger than the original tensor; a layout that needs more bytes than the
\* original tensor has makes the serialization fail.
C5_WithinBudget ==
  /\ (pc = "release" \/ (pc = "returned" /\ ret = RET_OK)) =>
       /\ ser.max_size = Original.size
       /\ ser.out_size <= Original.size
       /\ weight.default_param.size = ser.out_size
       /\ Len(weight.default_param.data) = ser.out_size
  /\ (/\ pc \in {"release", "returned"}
      /\ steps # <<>>
      /\ LastStep.step = "serialize"
      /\ bs.allocated
      /\ Needed > Original.size) => LastStep.ret # RET_OK

\* Compress has succeeded on a tensor whose bytes the buffer fills exactly.
C5_Witness ==
  /\ pc = "release"
  /\ Original.data_type = kNumberTypeInt8
  /\ ser.out_size = Original.size
  /\ Needed = Original.size

\* C8: whenever Compress returns after the squeeze step has produced the
\* symbol table, the symbol table and the storage of the bit stream have
\* been released.
C8_Released ==
  (/\ pc = "returned"
   /\ Len(steps) >= 2
   /\ steps[2].ret = RET_OK) => heap = {}

\* C9: the weight is what it was at the call until Compress succeeds, and
\* when Compress returns success it is the compressed tensor made of the
\* serialized bytes; on every failing return the default parameter and the
\* abstract are those of the call.
C9_ReplacedIffSuccess ==
  /\ pc \in {"type_check", "squeeze", "normalize", "create", "encode", "prime",
             "empty", "loop", "encoded", "serialize", "undefined"} => weight = called
  /\ (pc = "returned" /\ ret # RET_OK) => weight = called
  /\ (pc = "release" \/ (pc = "returned" /\ ret = RET_OK)) =>
       /\ weight # called
       /\ weight.default_param =
            CompressedTensor(Original.shape, ser.written, ser.out_size)
       /\ weight.default_param.compression = kFSE
       /\ weight.abstract = ToAbstract(weight.default_param)

\* Compress has returned an error after the buffer was serialized: the copy
\* into the new tensor failed.
C9_Witness ==
  /\ pc = "returned"
  /\ ret = RET_ERROR
  /\ ser.out_size > 0
  /\ weight = called

\* The order of the steps of Compress.
Order == <<"type_check", "squeeze", "normalize", "create", "encode", "flush",
           "serialize">>

\* C10: the steps run are a prefix of the fixed order, each once; every
\* step but the last one run returned success; a failed step ends the call
\* and its status is what Compress returns; an unsupported element type
\* fails before any other step.
C10_AbortOnFirstFailure ==
  /\ Len(steps) <= Len(Order)
  /\ \A k \in 1..Len(steps) : steps[k].step = Order[k]
  /\ \A k \in 1..(Len(steps) - 1) : steps[k].ret = RET_OK
  /\ (steps # <<>> /\ LastStep.ret # RET_OK) => (pc = "returned" /\ ret = LastStep.ret)
  /\ pc = "returned" =>
       /\ steps # <<>>
       /\ ret = LastStep.ret
       /\ ret = RET_OK => Len(steps) = Len(Order)
       /\ Original.data_type \notin {kNumberTypeInt8, kNumberTypeInt16} =>
            (Len(steps) = 1 /\ ret # RET_OK)

\* Compress has returned the error of the stream creation, the fourth step.
C10_Witness ==
  /\ pc = "returned"
  /\ Len(steps) = 4
  /\ LastStep.step = "create"
  /\ ret = RET_ERROR

\* Compress was called on a tensor of a supported type with no elements.
EmptyInput ==
  /\ pc # "idle"
  /\ Original.data = <<>>
  /\ Original.data_type \in {kNumberTypeInt8, kNumberTypeInt16}

\* C12, as claimed: Compress returns an error for a zero-length sequence
\* because the creation of a stream of 16 x 0 bits fails.
C12_AsClaimed ==
  (EmptyInput /\ pc = "returned" /\ Len(steps) >= 2 /\ steps[2].ret = RET_OK) =>
    /\ ret # RET_OK
    /\ LastStep.step = "create"

\* C12, amended: Compress returns an error for a zero-length sequence at
\* the squeeze step or at NormalizeFrequency, whose frequencies sum to
\* zero; the stream is never created, FSEEncode is never entered and no
\* symbol is read.
C12_EmptyRejected ==
  EmptyInput =>
    /\ pc \in {"type_check", "squeeze", "normalize", "returned"}
    /\ events = <<>>
    /\ ~bs.allocated
    /\ pc = "returned" =>
         /\ ret # RET_OK
         /\ LastStep.step \in {"squeeze", "normalize"}
         /\ LastStep.ret # RET_OK

\* Compress has returned the error of NormalizeFrequency for an int16
\* tensor with no elements.
C12_Witness ==
  /\ EmptyInput
  /\ pc = "returned"
  /\ Original.data_type = kNumberTypeInt16
  /\ LastStep.step = "normalize"
  /\ ret = RET_ERROR

\* Compress has returned because SerializingToBuffer refused the buffer:
\* the serialize step failed after stores were made and before any copy.
BufferRejected ==
  /\ pc = "returned"
  /\ steps # <<>>
  /\ LastStep.step = "serialize"
  /\ LastStep.ret # RET_OK
  /\ ser.fields # <<>>
  /\ ser.out_size = 0

\* C16, as claimed: the size of the serialized buffer never makes Compress
\* reject a tensor, so that a buffer larger than the original is accepted.
C16_AsClaimed == ~BufferRejected

\* C16, amended: expansion is never accepted. When Compress succeeds the
\* new payload is no larger in bytes than the original; a tensor whose
\* serialized form needs more bytes than the original is rejected with the
\* weight unchanged, and SerializingToBuffer rejects only such tensors.
C16_NoExpansion ==
  /\ (pc = "returned" /\ ret = RET_OK) =>
       /\ weight # called
       /\ weight.default_param.size <= Original.size
  /\ (/\ pc = "returned"
      /\ steps # <<>>
      /\ LastStep.step = "serialize"
      /\ bs.allocated
      /\ Needed > Original.size) =>
       /\ ret # RET_OK
       /\ weight = called
  /\ BufferRejected => Needed > Original.size

\* Compress has rejected a tensor whose serialized form is larger than the
\* tensor, with memory allocated, and has left the weight as it was.
C16_Witness ==
  /\ BufferRejected
  /\ Needed > Original.size
  /\ ret = RET_ERROR
  /\ weight = called

\* The call works on an alphabet of one symbol and a sequence of at least
\* one element.
SingleSymbol == fse_quant.size = 1 /\ fse_quant.symbol_table_count >= 1

\* C13: for an alphabet of one symbol and a sequence of n >= 1 elements,
\* normalization, table construction and encoding succeed, every
\* transition pushes 0 bits, and after encoding the stream holds exactly
\* the table_log bits of the final state.
C13_SingleSymbol ==
  SingleSymbol =>
    /\ pc # "undefined"
    /\ ~ub
    /\ \A k \in 1..Len(steps) :
         steps[k].step \in {"normalize", "encode"} => steps[k].ret = RET_OK
    /\ pc \in {"prime", "empty", "loop", "encoded"} =>
         /\ tables.ret = RET_OK
         /\ ~tables.out_of_table
    /\ \A k \in 1..Len(events) :
         events[k].op \in {"prime", "symbol"} => events[k].bits = 0
    /\ pc = "encoded" =>
         /\ Len(events) = fse_quant.symbol_table_count + 3
         /\ Content(bs) = LowBits(state - Pow2(table_log), table_log)
         /\ Len(Content(bs)) = table_log

\* A sequence of LongCount elements, all of one value, has been encoded.
C13_Witness ==
  /\ SingleSymbol
  /\ pc = "encoded"
  /\ fse_quant.symbol_table_count = LongCount
  /\ Len(events) = LongCount + 3

\* The operations FSEEncode and the flush after it perform on the stream
\* for a sequence of n symbols, in order.
ExpectedOps(n) ==
  <<"prime", "Empty">> \o [j \in 1..n |-> "symbol"] \o <<"final", "Flush">>

\* The bits the transitions and the final push recorded in events[from..to]
\* sent to the stream, in order.
RECURSIVE BitsOfEvents(_, _)
BitsOfEvents(from, to) ==
  IF from > to THEN <<>>
  ELSE (IF events[from].op \in {"prime", "symbol"}
        THEN LowBits(events[from].from, events[from].bits)
        ELSE IF events[from].op = "final"
        THEN LowBits(events[from].value, events[from].bits)
        ELSE <<>>) \o BitsOfEvents(from + 1, to)

\* C22: for a sequence of n symbols FSEEncode makes n + 1 transitions, in
\* the order S[0] (priming), Empty, S[0], ..., S[n-1], final push; the
\* stream it leaves holds the bits of the n transitions after Empty in
\* order, then the table_log bits of state - table_size, and none of the
\* priming bits; the stream is then flushed once and nothing more is pushed.
C22_PrimingDiscarded ==
  LET n == fse_quant.symbol_table_count IN
  /\ Len(events) <= n + 4
  /\ \A k \in 1..Len(events) :
       /\ events[k].op = ExpectedOps(n)[k]
       /\ events[k].op = "prime" => events[k].sym = fse_quant.symbol_table[0]
       /\ events[k].op = "symbol" => events[k].sym = fse_quant.symbol_table[k - 3]
       /\ events[k].op = "final" =>
            /\ events[k].bits = table_log
            /\ events[k].value = events[k - 1].to - Pow2(table_log)
  /\ pc = "loop" => Len(events) = i + 2 /\ Content(bs) = BitsOfEvents(3, Len(events))
  /\ pc = "encoded" =>
       /\ Len(events) = n + 3
       /\ Content(bs) = BitsOfEvents(3, n + 3)
  /\ pc = "serialize" =>
       /\ Len(events) = n + 4
       /\ bs.curr_chunk = <<>>
       /\ SubSeq(Flatten(bs.chunks), 1, Len(BitsOfEvents(3, n + 3))) =
            BitsOfEvents(3, n + 3)
  /\ (pc \in {"release", "returned"} /\ steps # <<>>
      /\ LastStep.step = "serialize") => Len(events) = n + 4

\* FSEEncode has returned for a sequence of LongCount symbols whose priming
\* transition pushed a bit that the stream no longer holds.
C22_Witness ==
  /\ pc = "encoded"
  /\ fse_quant.symbol_table_count = LongCount
  /\ events[1].bits > 0
  /\ Content(bs) = BitsOfEvents(3, LongCount + 3)
  /\ Len(Content(bs)) < Len(BitsOfEvents(1, LongCount + 3))

\* C29: for every max_size >= 1, SerializingToBuffer stores only to byte
\* offsets below max_size, and every store, the first two-byte symbol_count
\* field included, is preceded by a test that its last byte is inside the
\* budget.
C29_NoOutOfBudgetWrite ==
  (pc = "serialize_out" /\ ser.max_size >= 1) =>
    /\ ~ser.out_of_budget
    /\ \A k \in 1..Len(ser.fields) :
         /\ ser.fields[k].offset + ser.fields[k].size <= ser.max_size
         /\ ser.fields[k].checked

\* SerializingToBuffer has returned from a call with a budget of one byte,
\* having stored the two bytes of symbol_count at offset 0.
C29_Witness ==
  /\ pc = "serialize_out"
  /\ ser.max_size = 1
  /\ ser.fields # <<>>
  /\ ser.fields[1].field = "symbol_count"
  /\ ser.fields[1].offset + ser.fields[1].size = 2
  /\ ser.out_of_budget

\* The capacity in bits Compress asked for when it created the stream.
BitCapacity == k16Bit * fse_quant.symbol_table_count

----------------------------------------------------------------------------
(* Compress called again and again: the first call that returns is kept    *)
(* and every later call is compared with it                                *)

\* The tensors of the repeated calls.
DetDatas ==
  {Cycle(<<0>>, n) : n \in {0, 1, LongCount}}
    \cup {<<0, 1, 0>>, Spike(LongCount, LongCount - SpikeBack)}

CallDet ==
  /\ pc = "idle"
  /\ \E data_type \in DataTypes, data \in DetDatas :
       Enter(WeightOf(RawTensor(data_type, data)))
  /\ UNCHANGED <<parser, history>>

\* A failure of this call that the tensor does not decide: SqueezeQuant,
\* an allocation or the copy failed.
EnvFailed ==
  /\ steps # <<>>
  /\ \/ LastStep.step = "squeeze" /\ LastStep.ret # RET_OK
     \/ LastStep.step = "create" /\ LastStep.ret # RET_OK
                                 /\ fse_quant.symbol_table_count > 0
     \/ LastStep.step = "serialize" /\ LastStep.ret = RET_NULL_PTR
     \/ LastStep.step = "serialize" /\ LastStep.ret = RET_ERROR /\ ser.out_size > 0

\* Compress has returned, as in Return; the first call to return is kept.
ReturnDet ==
  /\ pc = "returned"
  /\ pc' = "idle"
  /\ history' = IF history = <<>>
                THEN <<[input |-> called, ret |-> ret, weight |-> weight,
                        env_failed |-> EnvFailed]>>
                ELSE history
  /\ weight' = WeightOf(RawTensor(kNumberTypeInt8, <<>>))
  /\ called' = WeightOf(RawTensor(kNumberTypeInt8, <<>>))
  /\ fse_quant' = NoQuant
  /\ table_log' = 0
  /\ bs' = NoStream
  /\ tables' = NoTables
  /\ state' = 0
  /\ i' = 0
  /\ ret' = RET_ERROR
  /\ heap' = {}
  /\ ser' = NoSer
  /\ steps' = <<>>
  /\ events' = <<>>
  /\ ub' = FALSE
  /\ UNCHANGED parser

NextDet ==
  \/ CallDet
  \/ TypeCheck
  \/ Squeeze
  \/ Normalize
  \/ CreateStream
  \/ CreateStates
  \/ Prime
  \/ EmptyStream
  \/ EncodeSymbol
  \/ PushFinalState
  \/ FlushStream
  \/ Serialize
  \/ Release
  \/ ReturnDet

SpecDet == Init /\ [][NextDet]_vars

----------------------------------------------------------------------------
(* The table_log of every alphabet size, and what the 16-bit state and    *)
(* the 16-bit coding table entries hold for it. table_log depends on the  *)
(* alphabet size alone, and the initial state and the value stored in a   *)
(* coding table slot on table_log alone, so the frequencies are left out. *)

\* The alphabet sizes SqueezeQuant lets through.
AlphabetSizes == 1..MAX_SYMS

InitLog ==
  /\ pc = "table_log_in"
  /\ \E size \in AlphabetSizes : fse_quant = [NoQuant EXCEPT !.size = size]
  /\ Unused({"fse_quant"})

\* NormalizeFrequency: *table_log = std::min(MAX_TABLE_LOG, CountBits(size) + 3)
ChooseTableLog ==
  /\ pc = "table_log_in"
  /\ table_log' = TableLogOf(fse_quant.size)
  /\ pc' = "table_log_out"
  /\ UNCHANGED <<parser, weight, fse_quant, bs, tables, state, i, ret, heap, ser, called,
                 steps, events, ub, history>>

\* FSEEncode: uint16_t state = table_size
SetInitialState ==
  /\ pc = "table_log_out"
  /\ state' = InitialState(table_log)
  /\ pc' = "state_set"
  /\ UNCHANGED <<parser, weight, fse_quant, table_log, bs, tables, i, ret, heap, ser,
                 called, steps, events, ub, history>>

\* FSECreateStatesForEncoding: the store of the coding loop for the first
\* or the last slot i of the spread table.
StoreCodingEntry ==
  /\ pc = "state_set"
  /\ \E slot \in {0, Pow2(table_log) - 1} :
       /\ i' = slot
       /\ events' = <<[op |-> "coding_entry", i |-> slot,
                       value |-> CodingEntry(Pow2(table_log), slot)]>>
  /\ pc' = "entry_stored"
  /\ UNCHANGED <<parser, weight, fse_quant, table_log, bs, tables, state, ret, heap, ser,
                 called, steps, ub, history>>

\* The frequency table of fse_quant.size symbols whose first symbol has
\* all of the table but one slot for each of the others.
OneLargeFrequency(sym) ==
  IF sym = 0 THEN Pow2(table_log) - (fse_quant.size - 1) ELSE 1

\* FSECreateStatesForEncoding: the store of the delta loop for the first or
\* the last symbol of that table, total being the sum of the frequencies
\* before it.
StoreDeltaState ==
  /\ pc = "state_set"
  /\ \E sym \in {0, fse_quant.size - 1} :
       LET f == OneLargeFrequency(sym)
           total == IF sym = 0 THEN 0 ELSE Pow2(table_log) - 1
       IN /\ i' = sym
          /\ events' = <<[op |-> "delta_state", sym |-> sym, total |-> total,
                          frequency |-> f,
                          value |-> DeltaStateEntry(total, f)]>>
  /\ pc' = "delta_stored"
  /\ UNCHANGED <<parser, weight, fse_quant, table_log, bs, tables, state, ret, heap, ser,
                 called, steps, ub, history>>

NextLog ==
  \/ ChooseTableLog
  \/ SetInitialState
  \/ StoreCodingEntry
  \/ StoreDeltaState

SpecLog == InitLog /\ [][NextLog]_vars

----------------------------------------------------------------------------
(* The bit stream on its own: pushes of several widths on a created or     *)
(* emptied stream.                                                         *)

MaxPushes == 5

\* The widths pushed: none, a few bits, and the widest Push accepts.
PushWidths == {0, 5, k16Bit}

\* The values pushed: an alternating pattern, and one with bits above the
\* sixteenth.
PushValues == {43690, 65536 + 255}

InitStream ==
  /\ pc = "stream"
  /\ bs = Create(NoStream, k16Bit * MaxPushes, TRUE).bs
  /\ Unused({"bs"})

\* bs.Push(value, bit_count)
PushCall ==
  /\ pc = "stream"
  /\ Len(events) < MaxPushes
  /\ \E value \in PushValues, bit_count \in PushWidths :
       /\ bs' = Push(bs, value, bit_count)
       /\ events' = Append(events, [op |-> "Push", value |-> value,
                                    bits |-> bit_count])
  /\ UNCHANGED <<parser, pc, weight, fse_quant, table_log, tables, state, i, ret, heap,
                 ser, called, steps, ub, history>>

\* bs.Empty()
EmptyCall ==
  /\ pc = "stream"
  /\ events # <<>>
  /\ bs' = Empty(bs)
  /\ events' = <<>>
  /\ UNCHANGED <<parser, pc, weight, fse_quant, table_log, tables, state, i, ret, heap,
                 ser, called, steps, ub, history>>

NextStream ==
  \/ PushCall
  \/ EmptyCall

SpecStream == InitStream /\ [][NextStream]_vars

\* The number of bits pushed by the first k calls since the stream was
\* created or emptied.
RECURSIVE BitsBefore(_)
BitsBefore(k) == IF k <= 0 THEN 0 ELSE BitsBefore(k - 1) + events[k].bits

----------------------------------------------------------------------------
(* NormalizeFrequency step by step: the rounding loop, each iteration of   *)
(* the shrink loop, and the grow step. The locals of the function are kept *)
(* in the last entry of events.                                            *)

\* updated_table_size, as the last step left it
UpdatedTableSize == events[Len(events)].updated_table_size

\* *table_log = ..., the sum, its test, and the rounding loop
RoundAll ==
  /\ pc = "normalize_in"
  /\ table_log' = TableLogOf(fse_quant.size)
  /\ LET new_table_size == Pow2(TableLogOf(fse_quant.size))
         curr_table_size == SumArr(fse_quant.frequency, fse_quant.size)
         rounded == [sym \in 0..(fse_quant.size - 1) |->
                       RoundFrequency(fse_quant.frequency[sym], new_table_size,
                                      curr_table_size)]
     IN IF curr_table_size = 0
        THEN /\ ret' = RET_ERROR
             /\ pc' = "normalize_out"
             /\ UNCHANGED <<parser, fse_quant, events>>
        ELSE /\ fse_quant' = [fse_quant EXCEPT !.frequency = rounded]
             /\ events' = Append(events,
                            [op |-> "rounded", frequency |-> rounded,
                             updated_table_size |-> SumArr(rounded, fse_quant.size)])
             /\ pc' = "shrink"
             /\ ret' = ret
  /\ UNCHANGED <<parser, weight, bs, tables, state, i, heap, ser, called, steps, ub,
                 history>>

\* One iteration of while (updated_table_size > new_table_size)
ShrinkIteration ==
  /\ pc = "shrink"
  /\ UpdatedTableSize > Pow2(table_log)
  /\ LET max_ix == GetMaxIndex(fse_quant.frequency, fse_quant.size) IN
     IF max_ix < 0 \/ max_ix > MAX_SYMS
     THEN /\ ret' = RET_ERROR
          /\ pc' = "normalize_out"
          /\ UNCHANGED <<parser, fse_quant, events>>
     ELSE /\ fse_quant' = [fse_quant EXCEPT !.frequency[max_ix] = @ - 1]
          /\ events' = Append(events,
                         [op |-> "shrink", max_ix |-> max_ix,
                          updated_table_size |-> UpdatedTableSize - 1])
          /\ UNCHANGED <<parser, pc, ret>>
  /\ UNCHANGED <<parser, weight, table_log, bs, tables, state, i, heap, ser, called,
                 steps, ub, history>>

\* The shrink loop is left; if (updated_table_size < new_table_size) the
\* grow step; return.
GrowStep ==
  /\ pc = "shrink"
  /\ UpdatedTableSize <= Pow2(table_log)
  /\ LET grown == Grow(fse_quant.frequency, fse_quant.size, UpdatedTableSize,
                       Pow2(table_log))
     IN /\ fse_quant' = [fse_quant EXCEPT !.frequency = grown.frequency]
        /\ ret' = grown.ret
  /\ events' = Append(events, [op |-> "grow",
                               updated_table_size |-> UpdatedTableSize])
  /\ pc' = "normalize_out"
  /\ UNCHANGED <<parser, weight, table_log, bs, tables, state, i, heap, ser, called,
                 steps, ub, history>>

NextNormSteps ==
  \/ RoundAll
  \/ ShrinkIteration
  \/ GrowStep

SpecNormSteps == InitNorm /\ [][NextNormSteps]_vars

\* The rounded frequencies and their sum.
Rounded == events[2].frequency
RoundedSum == SumArr(Rounded, fse_quant.size)

\* The iterations of the shrink loop made so far.
ShrinkCount == Cardinality({k \in 1..Len(events) : events[k].op = "shrink"})

\* The entry sym is the largest of the table, the first of them if several
\* are.
FirstLargest(sym) ==
  /\ \A t \in 0..(fse_quant.size - 1) : fse_quant.frequency[t] <= fse_quant.frequency[sym]
  /\ \A t \in 0..(sym - 1) : fse_quant.frequency[t] < fse_quant.frequency[sym]

\* C24: when the rounded frequencies sum to more than 2^table_log,
\* NormalizeFrequency makes exactly (rounded sum - 2^table_log) iterations
\* of the shrink loop; each takes one from the entry that is largest at
\* that moment (the lowest index among equal maxima), leaves every other
\* entry as it is and never takes an entry below 1; the loop ends with the
\* sum equal to 2^table_log.
C24_Shrink ==
  /\ [][(pc = "shrink" /\ pc' = "shrink") =>
          \E sym \in 0..(fse_quant.size - 1) :
            /\ FirstLargest(sym)
            /\ fse_quant'.frequency[sym] = fse_quant.frequency[sym] - 1
            /\ fse_quant'.frequency[sym] >= 1
            /\ \A t \in 0..(fse_quant.size - 1) :
                 t # sym => fse_quant'.frequency[t] = fse_quant.frequency[t]]_vars
  /\ []((pc = "shrink" /\ RoundedSum > Pow2(table_log)) =>
          /\ ShrinkCount <= RoundedSum - Pow2(table_log)
          /\ SumArr(fse_quant.frequency, fse_quant.size) = RoundedSum - ShrinkCount
          /\ UpdatedTableSize = RoundedSum - ShrinkCount)
  /\ []((pc = "normalize_out" /\ Len(events) >= 2 /\ RoundedSum > Pow2(table_log)) =>
          /\ ret = RET_OK
          /\ ShrinkCount = RoundedSum - Pow2(table_log)
          /\ SumArr(fse_quant.frequency, fse_quant.size) = Pow2(table_log)
          /\ \A t \in 0..(fse_quant.size - 1) : fse_quant.frequency[t] >= 1
          /\ fse_quant.frequency =
               NormalizeFrequency(InputHistogram, fse_quant.size).frequency)

\* NormalizeFrequency has returned after two iterations of the shrink
\* loop, both on the same entry, which stayed the largest.
C24_Witness ==
  /\ pc = "normalize_out"
  /\ ret = RET_OK
  /\ ShrinkCount = 2
  /\ events[3].max_ix = events[4].max_ix
  /\ fse_quant.frequency[events[3].max_ix] = Rounded[events[3].max_ix] - 2

\* C25: when the rounded frequencies sum to less than 2^table_log,
\* NormalizeFrequency adds the whole deficit in one step to the largest
\* entry (the lowest index among equal maxima) and leaves every other
\* entry at its rounded value; a call in which the shrink loop has changed
\* the table is not changed by the grow step.
C25_Grow ==
  /\ [][(pc = "shrink" /\ pc' = "normalize_out" /\ RoundedSum < Pow2(table_log)) =>
          /\ ShrinkCount = 0
          /\ fse_quant.frequency = Rounded
          /\ ret' = RET_OK
          /\ \E sym \in 0..(fse_quant.size - 1) :
               /\ FirstLargest(sym)
               /\ fse_quant'.frequency[sym] =
                    Rounded[sym] + (Pow2(table_log) - RoundedSum)
               /\ \A t \in 0..(fse_quant.size - 1) :
                    t # sym => fse_quant'.frequency[t] = Rounded[t]]_vars
  /\ [][(pc = "shrink" /\ pc' = "normalize_out" /\ RoundedSum >= Pow2(table_log)) =>
          fse_quant' = fse_quant]_vars
  /\ []((pc = "normalize_out" /\ Len(events) >= 2 /\ RoundedSum < Pow2(table_log)) =>
          /\ SumArr(fse_quant.frequency, fse_quant.size) = Pow2(table_log)
          /\ fse_quant.frequency =
               NormalizeFrequency(InputHistogram, fse_quant.size).frequency)

\* NormalizeFrequency has returned after the grow step gave a deficit to
\* the first of two equal largest entries, which is not entry 0.
C25_Witness ==
  /\ pc = "normalize_out"
  /\ ret = RET_OK
  /\ fse_quant.size = 3
  /\ RoundedSum < Pow2(table_log)
  /\ Rounded[0] < Rounded[1]
  /\ Rounded[1] = Rounded[2]
  /\ fse_quant.frequency[1] = Rounded[1] + (Pow2(table_log) - RoundedSum)
  /\ fse_quant.frequency[2] = Rounded[2]

\* NormalizeFrequency has returned RET_OK for a histogram.
NormalizedOk == pc = "normalize_out" /\ Len(events) >= 2 /\ ret = RET_OK

\* C26, as claimed: for every valid histogram and every pair of symbols i,
\* j, if the input frequency of i is at least that of j then the
\* normalized frequency of i is at least that of j.
C26_AsClaimed ==
  NormalizedOk =>
    \A a \in 0..(fse_quant.size - 1), b \in 0..(fse_quant.size - 1) :
      InputHistogram[a] >= InputHistogram[b] =>
        fse_quant.frequency[a] >= fse_quant.frequency[b]

\* C26, amended: the order is kept by the rounding, and by the returned
\* frequencies up to one: if the input frequency of i is at least that of j
\* the rounded frequency of i is at least that of j, and if the rounded
\* frequency of i is greater than that of j the normalized frequency of i
\* is at least that of j less one.
C26_OrderKept ==
  NormalizedOk =>
    \A a \in 0..(fse_quant.size - 1), b \in 0..(fse_quant.size - 1) :
      /\ InputHistogram[a] >= InputHistogram[b] => Rounded[a] >= Rounded[b]
      /\ Rounded[a] > Rounded[b] =>
           fse_quant.frequency[a] >= fse_quant.frequency[b] - 1

\* NormalizeFrequency has returned a smaller frequency for the first of
\* two symbols of equal input frequency, the shrink loop having taken one
\* from it.
C26_Witness ==
  /\ NormalizedOk
  /\ fse_quant.size >= 2
  /\ InputHistogram[0] = InputHistogram[1]
  /\ ShrinkCount = 1
  /\ fse_quant.frequency[0] = fse_quant.frequency[1] - 1

----------------------------------------------------------------------------
(* FSECreateStatesForEncoding on frequencies that need not sum to the      *)
(* table size.                                                             *)

MaxSumLog == 4
MaxSumSyms == 2

\* The frequency tables of n symbols, zero entries included, that sum to
\* at most one more than twice the table size.
SumTables(n, tablesize) ==
  {f \in [0..(n - 1) -> 0..(2 * tablesize + 1)] : SumArr(f, n) <= 2 * tablesize + 1}

InitSum ==
  /\ pc = "create_states_in"
  /\ table_log \in 1..MaxSumLog
  /\ \E n \in 1..MaxSumSyms :
       \E f \in SumTables(n, Pow2(table_log)) :
         fse_quant = [NoQuant EXCEPT !.frequency = f, !.size = n]
  /\ Unused({"fse_quant", "table_log"})

SpecSum == InitSum /\ [][NextSpread]_vars

\* The sum of the frequencies of the call.
FrequencySum == SumArr(fse_quant.frequency, fse_quant.size)

\* C27, as claimed: for every table_log in 1..MAX_TABLE_LOG,
\* FSECreateStatesForEncoding returns an error whenever the frequencies do
\* not sum to table_size, and success only when they do.
C27_AsClaimed ==
  pc = "create_states_out" =>
    /\ FrequencySum # Pow2(table_log) => ret = RET_ERROR
    /\ ret = RET_OK => FrequencySum = Pow2(table_log)

\* C27, amended: FSECreateStatesForEncoding returns an error exactly when
\* the final spread position is not 0. For table_log other than 1 and 3
\* that is when the sum of the frequencies is not a multiple of table_size:
\* a sum of 0 is accepted and the tables are built, and so is a sum of
\* 2 x table_size, unless the stores outside the coding table it leads to
\* end the call. For table_log 1 and 3 the position is always 0.
C27_SumDetected ==
  pc = "create_states_out" =>
    /\ Len(tables.writes) = FrequencySum
    /\ (tables.pos # 0) <=> (ret = RET_ERROR)
    /\ (tables.pos = 0 /\ ~tables.out_of_table) => ret = RET_OK
    /\ table_log \notin {1, 3} =>
         ((tables.pos = 0) <=> (FrequencySum % Pow2(table_log) = 0))
    /\ table_log \in {1, 3} => tables.pos = 0
    /\ FrequencySum \in {0, Pow2(table_log)} => ~tables.out_of_table

\* FSECreateStatesForEncoding has returned RET_OK for two frequencies of 0
\* and a table of 2^MaxSumLog slots.
C27_Witness ==
  /\ pc = "create_states_out"
  /\ table_log = MaxSumLog
  /\ fse_quant.size = MaxSumSyms
  /\ FrequencySum = 0
  /\ ~tables.out_of_table
  /\ ret = RET_OK

----------------------------------------------------------------------------
(* TfliteModelParser::ConvertOps, step by step: subgraphs of up to MaxOps  *)
(* operators with up to MaxConsts constant inputs each, every lookup and   *)
(* every conversion succeeding or failing.                                 *)

MaxOps == 3
MaxConsts == 2

\* What ConvertOpQuantParams, ConvertConstTensor and ConvertOutputTensor
\* return.
CalleeStatus == {RET_OK, RET_ERROR}

\* A step of the conversion of operator op has failed.
Failed(p, step) == [p EXCEPT !.failures = @ \cup {[op |-> p.op, step |-> step]}]

OtherThanParser ==
  <<weight, fse_quant, table_log, bs, tables, state, i, heap, ser, called,
    steps, events, ub, history>>

InitOps ==
  /\ pc = "ops_in"
  /\ \E n \in 0..MaxOps : parser = [NoParser EXCEPT !.operators = n]
  /\ Unused({"parser"})

\* ConvertOps is entered: STATUS status = RET_OK; int op_idx = 0;
ConvertOpsEnter ==
  /\ pc = "ops_in"
  /\ parser' = [parser EXCEPT !.status = RET_OK, !.op_idx = 0]
  /\ pc' = "op_loop"
  /\ UNCHANGED <<ret, OtherThanParser>>

\* The head of an iteration: op_idx++, GetNodeParser, and the two tests
\* that end the iteration: no node parser, or a status that is not RET_OK.
GetNodeParser ==
  /\ pc = "op_loop"
  /\ parser.op_idx < parser.operators
  /\ \E found \in BOOLEAN :
       LET next == [parser EXCEPT !.op = parser.op_idx, !.op_idx = @ + 1] IN
       IF ~found
       THEN /\ parser' = [Failed(next, "GetNodeParser") EXCEPT
                            !.status = IF @ = RET_OK THEN RET_NOT_FIND_OP ELSE @]
            /\ pc' = "op_loop"
       ELSE /\ parser' = next
            /\ pc' = IF parser.status # RET_OK THEN "op_loop" ELSE "parse"
  /\ UNCHANGED <<ret, OtherThanParser>>

\* node_parser->Parse(op, tflite_model_): a null primitive ends ConvertOps
\* with RET_ERROR.
Parse ==
  /\ pc = "parse"
  /\ \E primitiveC \in BOOLEAN :
       IF primitiveC
       THEN /\ pc' = "quant"
            /\ UNCHANGED <<parser, ret>>
       ELSE /\ parser' = Failed(parser, "Parse")
            /\ ret' = RET_ERROR
            /\ pc' = "ops_out"
  /\ UNCHANGED OtherThanParser

\* status = ConvertOpQuantParams(op.get(), primitiveC); a failure ends the
\* iteration. Otherwise the loop over the inputs starts; the inputs that
\* are not nodes yet are the constant ones.
ConvertOpQuantParams ==
  /\ pc = "quant"
  /\ \E status \in CalleeStatus :
       IF status # RET_OK
       THEN /\ parser' = [Failed(parser, "ConvertOpQuantParams") EXCEPT !.status = status]
            /\ pc' = "op_loop"
       ELSE /\ \E consts \in 0..MaxConsts :
                 parser' = [parser EXCEPT !.status = status, !.const_inputs = consts]
            /\ pc' = "inputs"
  /\ UNCHANGED <<ret, OtherThanParser>>

\* status = ConvertConstTensor(input_tensor.get(), parameter, tensor_name)
\* for the next constant input; a failure goes on with the next input.
ConvertConstTensor ==
  /\ pc = "inputs"
  /\ parser.const_inputs > 0
  /\ \E status \in CalleeStatus :
       LET next == [parser EXCEPT !.status = status, !.const_inputs = @ - 1] IN
       parser' = IF status # RET_OK THEN Failed(next, "ConvertConstTensor") ELSE next
  /\ UNCHANGED <<pc, ret, OtherThanParser>>

\* auto new_cnode = res_graph_->NewCNode(op_inputs), after the loop over
\* the inputs.
NewCNode ==
  /\ pc = "inputs"
  /\ parser.const_inputs = 0
  /\ parser' = [parser EXCEPT !.cnodes = @ \cup {parser.op}]
  /\ pc' = "outputs"
  /\ UNCHANGED <<ret, OtherThanParser>>

\* status = ConvertOutputTensor(op.get(), new_cnode), the last statement
\* of the iteration.
ConvertOutputTensor ==
  /\ pc = "outputs"
  /\ \E status \in CalleeStatus :
       LET next == [parser EXCEPT !.status = status] IN
       parser' = IF status # RET_OK THEN Failed(next, "ConvertOutputTensor") ELSE next
  /\ pc' = "op_loop"
  /\ UNCHANGED <<ret, OtherThanParser>>

\* return status; after the last operator.
ConvertOpsReturn ==
  /\ pc = "op_loop"
  /\ parser.op_idx >= parser.operators
  /\ ret' = parser.status
  /\ pc' = "ops_out"
  /\ UNCHANGED <<parser, OtherThanParser>>

NextOps ==
  \/ ConvertOpsEnter
  \/ GetNodeParser
  \/ Parse
  \/ ConvertOpQuantParams
  \/ ConvertConstTensor
  \/ NewCNode
  \/ ConvertOutputTensor
  \/ ConvertOpsReturn

SpecOps == InitOps /\ [][NextOps]_vars

\* The operators at which a step has failed.
FailedOps == {f.op : f \in parser.failures}

\* C30: ConvertOps returns RET_OK only if no lookup and no conversion has
\* failed for any operator; once a step has failed for an operator the
\* returned status is not RET_OK, and no graph node is created for that
\* operator or for a later one.
C30_ReportsEveryFailure ==
  /\ (pc = "ops_out" /\ ret = RET_OK) => parser.failures = {}
  /\ (pc = "ops_out" /\ parser.failures # {}) => ret # RET_OK
  /\ \A failed \in FailedOps : \A node \in parser.cnodes : node < failed

\* ConvertOps has returned RET_OK although ConvertConstTensor failed for
\* an operator, and the graph holds a node for that operator.
C30_Witness ==
  /\ pc = "ops_out"
  /\ ret = RET_OK
  /\ \E f \in parser.failures :
       /\ f.step = "ConvertConstTensor"
       /\ f.op \in parser.cnodes
====
